---- MODULE Spec2Model ----
(***************************************************************************)
(* Apply engine of claude-prompt-manager: PathGuard (resolveSafePath),     *)
(* ContentMerger (mergeContent), InheritanceResolver (resolveInheritance), *)
(* ConflictDetector (getConflictingFiles), the project writer              *)
(* (writeFilesToProject) and the ApplyOrchestrator (applyConfiguration,    *)
(* applyWithResolvedConflicts), and the inheritance check of the validate  *)
(* command (validateInheritanceChain).                                     *)
(*                                                                         *)
(* Strings that the code inspects character by character (paths) are       *)
(* sequences of one-character strings.  File contents are sequences of     *)
(* lines (content.split("\n")); the empty content is <<"">>.               *)
(***************************************************************************)
EXTENDS Integers, Sequences, FiniteSets, TLC

VARIABLES fs, dirs, env, call, result, log, fsBefore, dirsBefore, calls

vars == <<fs, dirs, env, call, result, log, fsBefore, dirsBefore, calls>>

(***************************************************************************)
(* Bounds                                                                  *)
(***************************************************************************)
\* number of orchestrator calls in one behaviour
MaxCalls == 2

\* longest list handed to applyWithResolvedConflicts
MaxResolved == 2

(***************************************************************************)
(* Generic sequence helpers                                                *)
(***************************************************************************)
Range(s) == { s[i] : i \in 1..Len(s) }

Contains(s, x) == \E i \in 1..Len(s) : s[i] = x

RECURSIVE Flatten(_)
Flatten(ss) == IF ss = <<>> THEN <<>> ELSE Head(ss) \o Flatten(Tail(ss))

StartsWith(s, p) == Len(p) <= Len(s) /\ SubSeq(s, 1, Len(p)) = p

\* String.prototype.lastIndexOf for a single character, 0 when absent (1-based)
LastIndexOf(s, c) ==
    LET I == { i \in 1..Len(s) : s[i] = c }
    IN  IF I = {} THEN 0 ELSE CHOOSE i \in I : \A j \in I : j <= i

(***************************************************************************)
(* node:path (POSIX host)                                                  *)
(***************************************************************************)
sep == <<"/">>

\* s.split("/")
RECURSIVE Split(_, _)
Split(s, acc) ==
    IF s = <<>> THEN <<acc>>
    ELSE IF Head(s) = "/" THEN <<acc>> \o Split(Tail(s), <<>>)
    ELSE Split(Tail(s), Append(acc, Head(s)))

\* normalizeString: drop "" and ".", let ".." pop a segment (never above the root)
RECURSIVE Normalize(_, _)
Normalize(segs, acc) ==
    IF segs = <<>> THEN acc
    ELSE LET g == Head(segs) IN
         IF g = <<>> \/ g = <<".">> THEN Normalize(Tail(segs), acc)
         ELSE IF g = <<".", ".">>
              THEN Normalize(Tail(segs),
                             IF acc = <<>> THEN acc ELSE SubSeq(acc, 1, Len(acc) - 1))
              ELSE Normalize(Tail(segs), Append(acc, g))

RECURSIVE JoinAbs(_)
JoinAbs(segs) ==
    IF segs = <<>> THEN <<>> ELSE <<"/">> \o Head(segs) \o JoinAbs(Tail(segs))

AbsOf(segs) == IF segs = <<>> THEN <<"/">> ELSE JoinAbs(segs)

\* path.isAbsolute
isAbsolute(p) == Len(p) > 0 /\ p[1] = "/"

\* path.resolve(base, rel) for an absolute base; an absolute rel replaces the base
resolve(base, rel) ==
    IF isAbsolute(rel) THEN AbsOf(Normalize(Split(rel, <<>>), <<>>))
    ELSE AbsOf(Normalize(Split(base, <<>>) \o Split(rel, <<>>), <<>>))

\* path.parse(p).root
parseRoot(p) == IF isAbsolute(p) THEN <<"/">> ELSE <<>>

\* path.dirname of a normalized absolute path
dirname(p) ==
    LET segs == Normalize(Split(p, <<>>), <<>>)
    IN  IF segs = <<>> THEN <<"/">> ELSE AbsOf(SubSeq(segs, 1, Len(segs) - 1))

(***************************************************************************)
(* PathGuard: resolveSafePath                                              *)
(***************************************************************************)
Letters == {"a", "b", "c", "d", "e", "j", "l", "m", "n", "o", "p", "s", "t", "x",
            "y", "C", "M", "D"}

\* /^[A-Za-z]:[\\/]/
IsDriveForm(p) == Len(p) >= 3 /\ p[1] \in Letters /\ p[2] = ":" /\ p[3] \in {"\\", "/"}

\* /^\\\\/
IsUncForm(p) == Len(p) >= 2 /\ p[1] = "\\" /\ p[2] = "\\"

PathOk(full) == [ok |-> TRUE, kind |-> "OK", path |-> full]
PathErr(kind) == [ok |-> FALSE, kind |-> kind, path |-> <<>>]

\* the final containment test of resolveSafePath
\* InsideBase without the containment test: every resolved path is accepted
InsideBaseUnchecked(base, full) == TRUE

InsideBase(base, full) == full = base \/ StartsWith(full, base \o sep)

resolveSafePath(baseDir, relativePath) ==
    IF relativePath = <<>> THEN PathErr("EMPTY")
    ELSE IF IsDriveForm(relativePath) \/ IsUncForm(relativePath) THEN PathErr("NOT_RELATIVE")
    ELSE IF isAbsolute(relativePath) THEN PathErr("NOT_RELATIVE")
    ELSE IF parseRoot(relativePath) # <<>> /\ parseRoot(relativePath) # <<".">>
            /\ parseRoot(relativePath) # sep THEN PathErr("NOT_RELATIVE")
    ELSE LET base == resolve(baseDir, <<>>)
             full == resolve(baseDir, relativePath)
         IN  IF InsideBase(base, full) THEN PathOk(full) ELSE PathErr("OUTSIDE_BASE")

(***************************************************************************)
(* constants.ts: getFileType                                               *)
(***************************************************************************)
Lower(c) == CASE c = "C" -> "c" [] c = "M" -> "m" [] c = "D" -> "d" [] OTHER -> c

toLowerCase(s) == [i \in 1..Len(s) |-> Lower(s[i])]

\* filename.substring(filename.lastIndexOf(".")): the whole name when there is no dot
Extension(filename) ==
    LET i == LastIndexOf(filename, ".")
    IN  IF i = 0 THEN filename ELSE SubSeq(filename, i, Len(filename))

FILE_TYPE_MAP(ext) ==
    CASE ext = <<".", "m", "d">> -> "markdown"
      [] ext = <<".", "m", "a", "r", "k", "d", "o", "w", "n">> -> "markdown"
      [] ext = <<".", "j", "s", "o", "n">> -> "json"
      [] ext = <<".", "y", "a", "m", "l">> -> "yaml"
      [] ext = <<".", "y", "m", "l">> -> "yaml"
      [] ext = <<".", "t", "x", "t">> -> "text"
      [] OTHER -> "text"

getFileType(filename) == FILE_TYPE_MAP(toLowerCase(Extension(filename)))

(***************************************************************************)
(* Contents.  A content is the sequence of its lines.  A JSON document is  *)
(* the two-line text <<format, rendering of the value>>: the format        *)
(* distinguishes a hand-written text from the output of                    *)
(* JSON.stringify(v, null, 2), so that parse-then-stringify is not the     *)
(* identity on texts.                                                      *)
(***************************************************************************)
EmptyContent == <<"">>

\* lines matching /^#{1,6}\s/ among the lines the model uses
HeadingLines == {"# A", "# B", "# C"}

IsHeading(line) == line \in HeadingLines

\* the string a list of lines joins to, again as its list of lines
JoinLines(ls) == IF ls = <<>> THEN EmptyContent ELSE ls

RECURSIVE DropLeadingBlank(_)
DropLeadingBlank(ls) ==
    IF ls = <<>> THEN <<>>
    ELSE IF Head(ls) = "" THEN DropLeadingBlank(Tail(ls)) ELSE ls

RECURSIVE DropTrailingBlank(_)
DropTrailingBlank(ls) ==
    IF ls = <<>> THEN <<>>
    ELSE IF ls[Len(ls)] = "" THEN DropTrailingBlank(SubSeq(ls, 1, Len(ls) - 1)) ELSE ls

\* String.prototype.trim on a text whose lines carry no outer blanks
Trim(ls) == JoinLines(DropTrailingBlank(DropLeadingBlank(ls)))

(***************************************************************************)
(* JSON values: numbers, arrays, objects (ordered key/value pairs, as      *)
(* Object.keys enumerates them).                                           *)
(***************************************************************************)
JNum(n) == [t |-> "num", v |-> <<n>>]
JArr(a) == [t |-> "arr", v |-> a]
JObj(kvs) == [t |-> "obj", v |-> kvs]

isPlainObject(x) == x.t = "obj"
IsArray(x) == x.t = "arr"

HasKey(o, k) == \E i \in 1..Len(o.v) : o.v[i][1] = k
GetKey(o, k) == LET i == CHOOSE i \in 1..Len(o.v) : o.v[i][1] = k IN o.v[i][2]

\* result[key] = value: an existing key keeps its position, a new one is appended
SetKey(o, k, x) ==
    IF HasKey(o, k)
    THEN JObj([i \in 1..Len(o.v) |-> IF o.v[i][1] = k THEN <<k, x>> ELSE o.v[i]])
    ELSE JObj(Append(o.v, <<k, x>>))

\* [...new Set(xs)]: primitives are deduplicated by value, objects and arrays by
\* identity (never equal here, each parsed value being a fresh object)
RECURSIVE UniqueValues(_, _)
UniqueValues(xs, acc) ==
    IF xs = <<>> THEN acc
    ELSE IF Head(xs).t = "num" /\ Contains(acc, Head(xs))
         THEN UniqueValues(Tail(xs), acc)
         ELSE UniqueValues(Tail(xs), Append(acc, Head(xs)))

\* { ...target, ...source }: the source value wins under every key
RECURSIVE ShallowMergeKeys(_, _)
ShallowMergeKeys(res, kvs) ==
    IF kvs = <<>> THEN res
    ELSE ShallowMergeKeys(SetKey(res, Head(kvs)[1], Head(kvs)[2]), Tail(kvs))

RECURSIVE deepMerge(_, _)
RECURSIVE DeepMergeKeys(_, _)
DeepMergeKeys(res, kvs) ==
    IF kvs = <<>> THEN res
    ELSE LET key == Head(kvs)[1]
             sourceValue == Head(kvs)[2]
             hasT == HasKey(res, key)
             next ==
               IF hasT /\ isPlainObject(sourceValue) /\ isPlainObject(GetKey(res, key))
               THEN SetKey(res, key, deepMerge(GetKey(res, key), sourceValue))
               ELSE IF hasT /\ IsArray(sourceValue) /\ IsArray(GetKey(res, key))
               THEN SetKey(res, key,
                           JArr(UniqueValues(GetKey(res, key).v \o sourceValue.v, <<>>)))
               ELSE SetKey(res, key, sourceValue)
         IN  DeepMergeKeys(next, Tail(kvs))

deepMerge(target, source) == DeepMergeKeys(target, source.v)

\* the JSON documents configurations and targets start with
JsonA == JObj(<< <<"a", JNum(1)>>, <<"b", JArr(<<JNum(1), JNum(2)>>)>> >>)
JsonB == JObj(<< <<"b", JArr(<<JNum(2), JNum(3)>>)>>, <<"c", JNum(4)>> >>)
JsonC == JObj(<< <<"a", JObj(<< <<"x", JNum(1)>> >>)>> >>)

JsonD == JObj(<< <<"a", JObj(<< <<"y", JNum(2)>> >>)>>, <<"b", JArr(<<JNum(3), JNum(3)>>)>> >>)

JsonInputs == {JsonA, JsonB, JsonC, JsonD}

\* every value a chain of merges of the inputs can produce
RECURSIVE MergeClosure(_)
MergeClosure(S) ==
    LET T == S \cup { deepMerge(x, y) : x \in S, y \in S }
    IN  IF T = S THEN S ELSE MergeClosure(T)

JsonUniverse == MergeClosure(JsonInputs)

JsonRender == [v \in JsonUniverse |-> ToString(v)]

JsonFormats == {"json:compact", "json:pretty"}

JsonText(fmt, v) == <<fmt, JsonRender[v]>>

IsJsonText(c) ==
    Len(c) = 2 /\ c[1] \in JsonFormats /\ \E v \in JsonUniverse : JsonRender[v] = c[2]

\* JSON.parse: [ok, val]; ok = FALSE stands for the SyntaxError it throws
JsonParse(c) ==
    IF IsJsonText(c)
    THEN [ok |-> TRUE, val |-> CHOOSE v \in JsonUniverse : JsonRender[v] = c[2]]
    ELSE [ok |-> FALSE, val |-> JObj(<<>>)]

\* JSON.stringify(v, null, 2)
JsonStringify(v) == JsonText("json:pretty", v)

(***************************************************************************)
(* merger.ts: ContentMerger used by the orchestrator and the resolution UI *)
(***************************************************************************)
\* A section map is the sequence of its entries in insertion order:
\* [h |-> heading line ("" before the first heading), b |-> body as lines]
SectionIndex(secs, h) ==
    LET I == { i \in 1..Len(secs) : secs[i].h = h }
    IN  IF I = {} THEN 0 ELSE CHOOSE i \in I : TRUE

\* Map.prototype.set
SectionSet(secs, h, b) ==
    LET i == SectionIndex(secs, h)
    IN  IF i = 0 THEN Append(secs, [h |-> h, b |-> b])
        ELSE [secs EXCEPT ![i] = [h |-> h, b |-> b]]

RECURSIVE ParseSectionLines(_, _, _, _)
ParseSectionLines(lines, sections, currentHeader, currentContent) ==
    IF lines = <<>>
    THEN IF currentHeader # "" \/ Len(currentContent) > 0
         THEN SectionSet(sections, currentHeader, JoinLines(currentContent))
         ELSE sections
    ELSE IF IsHeading(Head(lines))
         THEN ParseSectionLines(
                Tail(lines),
                IF currentHeader # "" \/ Len(currentContent) > 0
                THEN SectionSet(sections, currentHeader, JoinLines(currentContent))
                ELSE sections,
                Head(lines), <<>>)
         ELSE ParseSectionLines(Tail(lines), sections, currentHeader,
                                Append(currentContent, Head(lines)))

parseMarkdownSections(content) == ParseSectionLines(content, <<>>, "", <<>>)

\* the reconstruction loop: heading line (when non-empty), then the body
RECURSIVE SectionLines(_)
SectionLines(secs) ==
    IF secs = <<>> THEN <<>>
    ELSE (IF Head(secs).h # "" THEN <<Head(secs).h>> ELSE <<>>)
         \o Head(secs).b \o SectionLines(Tail(secs))

RECURSIVE OverlaySections(_, _)
OverlaySections(merged, newSections) ==
    IF newSections = <<>> THEN merged
    ELSE OverlaySections(SectionSet(merged, Head(newSections).h, Head(newSections).b),
                         Tail(newSections))

\* a merge that never marks a heading
NoSectionConflicts(merged, newSections) == 0

\* headings of the new content whose body differs from the one already merged
RECURSIVE SectionConflicts(_, _)
SectionConflicts(merged, newSections) ==
    IF newSections = <<>> THEN 0
    ELSE LET s == Head(newSections)
             i == SectionIndex(merged, s.h)
         IN  (IF i # 0 /\ merged[i].b # s.b THEN 1 ELSE 0)
             + SectionConflicts(SectionSet(merged, s.h, s.b), Tail(newSections))

MergeResult(success, content, hasConflicts, conflictMarkers) ==
    [success |-> success, content |-> content, hasConflicts |-> hasConflicts,
     conflictMarkers |-> conflictMarkers]

mergeMarkdown(existing, newContent) ==
    LET existingSections == parseMarkdownSections(existing)
        newSections == parseMarkdownSections(newContent)
        conflicts == SectionConflicts(existingSections, newSections)
        merged == OverlaySections(existingSections, newSections)
    IN  MergeResult(conflicts = 0, Trim(SectionLines(merged)), conflicts > 0, conflicts)

createConflictResult(existing, newContent) ==
    MergeResult(FALSE,
                <<"<<<<<<< EXISTING">> \o existing \o <<"=======">> \o newContent
                    \o <<">>>>>>> NEW">>,
                TRUE, 1)

mergeJson(existing, newContent) ==
    LET e == JsonParse(existing)
        n == JsonParse(newContent)
    IN  IF e.ok /\ n.ok
        THEN MergeResult(TRUE, JsonStringify(deepMerge(e.val, n.val)), FALSE, 0)
        ELSE createConflictResult(existing, newContent)

mergeYaml(existing, newContent) == MergeResult(TRUE, newContent, FALSE, 0)

mergeText(existing, newContent) ==
    IF existing = newContent THEN MergeResult(TRUE, existing, FALSE, 0)
    ELSE createConflictResult(existing, newContent)

\* content.match(/<<<<<<<[^\n]*\n/g): the lines that hold "<<<<<<<" and are
\* followed by a line break
countConflictMarkers(content) ==
    Cardinality({ i \in 1..(Len(content) - 1) : content[i] = "<<<<<<< EXISTING" })

mergeContent(existingContent, newContent, filePath) ==
    LET fileType == getFileType(filePath)
    IN  CASE fileType = "markdown" -> mergeMarkdown(existingContent, newContent)
          [] fileType = "json" -> mergeJson(existingContent, newContent)
          [] fileType = "yaml" -> mergeYaml(existingContent, newContent)
          [] OTHER -> mergeText(existingContent, newContent)

(***************************************************************************)
(* resolver.ts: InheritanceResolver                                        *)
(***************************************************************************)
\* A ConfigurationFile: [path, content, type, override, exclude]
File(path, content, type) ==
    [path |-> path, content |-> content, type |-> type,
     override |-> FALSE, exclude |-> FALSE]

\* the resolver's own mergers return the merged content only
resolverMergeJson(parentContent, childContent) ==
    LET p == JsonParse(parentContent)
        c == JsonParse(childContent)
    IN  IF p.ok /\ c.ok THEN JsonStringify(deepMerge(p.val, c.val)) ELSE childContent

\* childContent || parentContent
resolverMergeYaml(parentContent, childContent) ==
    IF childContent # EmptyContent THEN childContent ELSE parentContent

resolverMergeMarkdown(parentContent, childContent) ==
    Trim(SectionLines(OverlaySections(parseMarkdownSections(parentContent),
                                      parseMarkdownSections(childContent))))

\* mergeFiles reading parent.type || child.type
mergeFilesParentTypeFirst(parent, child) ==
    LET type == IF parent.type # "" THEN parent.type ELSE child.type
        mergedContent ==
          CASE type = "json" -> resolverMergeJson(parent.content, child.content)
            [] type = "yaml" -> resolverMergeYaml(parent.content, child.content)
            [] type = "markdown" -> resolverMergeMarkdown(parent.content, child.content)
            [] OTHER -> child.content
    IN  File(child.path, mergedContent, type)

\* type = child.type || parent.type ("" stands for a missing type)
mergeFiles(parent, child) ==
    LET type == IF child.type # "" THEN child.type ELSE parent.type
        mergedContent ==
          CASE type = "json" -> resolverMergeJson(parent.content, child.content)
            [] type = "yaml" -> resolverMergeYaml(parent.content, child.content)
            [] type = "markdown" -> resolverMergeMarkdown(parent.content, child.content)
            [] OTHER -> child.content
    IN  File(child.path, mergedContent, type)

\* The file map is the sequence of its values in insertion order (paths unique)
FileIndex(fileMap, path) ==
    LET I == { i \in 1..Len(fileMap) : fileMap[i].path = path }
    IN  IF I = {} THEN 0 ELSE CHOOSE i \in I : TRUE

FileMapSet(fileMap, f) ==
    LET i == FileIndex(fileMap, f.path)
    IN  IF i = 0 THEN Append(fileMap, f) ELSE [fileMap EXCEPT ![i] = f]

FileMapDelete(fileMap, path) ==
    LET i == FileIndex(fileMap, path)
    IN  IF i = 0 THEN fileMap
        ELSE SubSeq(fileMap, 1, i - 1) \o SubSeq(fileMap, i + 1, Len(fileMap))

\* FoldFile without the override test: an overriding entry is merged like any other
FoldFileIgnoringOverride(fileMap, file) ==
    LET i == FileIndex(fileMap, file.path)
    IN  IF file.exclude THEN FileMapDelete(fileMap, file.path)
        ELSE IF i = 0 THEN FileMapSet(fileMap, file)
        ELSE FileMapSet(fileMap, mergeFiles(fileMap[i], file))

\* one iteration of the inner loop of mergeConfigurationChain
FoldFile(fileMap, file) ==
    LET i == FileIndex(fileMap, file.path)
    IN  IF file.exclude THEN FileMapDelete(fileMap, file.path)
        ELSE IF file.override \/ i = 0 THEN FileMapSet(fileMap, file)
        ELSE FileMapSet(fileMap, mergeFiles(fileMap[i], file))

RECURSIVE FoldFiles(_, _)
FoldFiles(fileMap, files) ==
    IF files = <<>> THEN fileMap ELSE FoldFiles(FoldFile(fileMap, Head(files)), Tail(files))

\* configs is ordered root to child
RECURSIVE FoldConfigs(_, _)
FoldConfigs(fileMap, configs) ==
    IF configs = <<>> THEN fileMap
    ELSE FoldConfigs(FoldFiles(fileMap, Head(configs).fileContents), Tail(configs))

mergeConfigurationChain(configs) == FoldConfigs(<<>>, configs)

Reverse(s) == [i \in 1..Len(s) |-> s[Len(s) + 1 - i]]

NoExtends == ""

\* WalkChain throwing the chain as it stood, the repeated id not pushed
RECURSIVE WalkChainCycleWithoutRepeat(_, _, _, _)
WalkChainCycleWithoutRepeat(current, lib, inheritanceChain, configs) ==
    IF Contains(inheritanceChain, current.id)
    THEN [ok |-> FALSE, kind |-> "InheritanceCycle",
          chain |-> inheritanceChain, configs |-> <<>>,
          lookups |-> Len(inheritanceChain)]
    ELSE LET chain2 == Append(inheritanceChain, current.id)
             configs2 == Append(configs, current)
         IN  IF current.extends # NoExtends
             THEN IF current.extends \in DOMAIN lib
                  THEN WalkChainCycleWithoutRepeat(lib[current.extends], lib, chain2, configs2)
                  ELSE [ok |-> FALSE, kind |-> "ParentNotFound",
                        chain |-> <<current.id, current.extends>>, configs |-> <<>>,
                        lookups |-> Len(chain2)]
             ELSE [ok |-> TRUE, kind |-> "OK", chain |-> chain2, configs |-> configs2,
                   lookups |-> Len(inheritanceChain)]

\* The while loop of resolveInheritance.  getConfig is the lookup table lib
\* (a function on the ids it knows).  Result: [ok, kind, chain, configs,
\* lookups], lookups being the number of getConfig calls made: every iteration
\* but the first is entered after one call, and inheritanceChain holds one id
\* per completed iteration
RECURSIVE WalkChain(_, _, _, _)
WalkChain(current, lib, inheritanceChain, configs) ==
    IF Contains(inheritanceChain, current.id)
    THEN [ok |-> FALSE, kind |-> "InheritanceCycle",
          chain |-> Append(inheritanceChain, current.id), configs |-> <<>>,
          lookups |-> Len(inheritanceChain)]
    ELSE LET chain2 == Append(inheritanceChain, current.id)
             configs2 == Append(configs, current)
         IN  IF current.extends # NoExtends
             THEN IF current.extends \in DOMAIN lib
                  THEN WalkChain(lib[current.extends], lib, chain2, configs2)
                  ELSE [ok |-> FALSE, kind |-> "ParentNotFound",
                        chain |-> <<current.id, current.extends>>, configs |-> <<>>,
                        lookups |-> Len(chain2)]
             ELSE [ok |-> TRUE, kind |-> "OK", chain |-> chain2, configs |-> configs2,
                   lookups |-> Len(inheritanceChain)]

\* resolveInheritance returning the chain root first
resolveInheritanceRootFirst(config, lib) ==
    LET w == WalkChain(config, lib, <<>>, <<>>)
    IN  [ok |-> w.ok, kind |-> w.kind, chain |-> Reverse(w.chain), lookups |-> w.lookups,
         resolvedFiles |-> IF w.ok THEN mergeConfigurationChain(Reverse(w.configs))
                           ELSE <<>>]

\* Result: [ok, kind, chain, lookups, resolvedFiles]; on success chain is
\* inheritanceChain, on failure the ids the thrown error carries
resolveInheritance(config, lib) ==
    LET w == WalkChain(config, lib, <<>>, <<>>)
    IN  [ok |-> w.ok, kind |-> w.kind, chain |-> w.chain, lookups |-> w.lookups,
         resolvedFiles |-> IF w.ok THEN mergeConfigurationChain(Reverse(w.configs))
                           ELSE <<>>]

(***************************************************************************)
(* validator.ts: validateInheritanceChain, and the validate command that   *)
(* calls it                                                                *)
(***************************************************************************)
\* The while loop of validateInheritanceChain.  getParentId is a function on
\* ids; chain holds the ids seen, in order.  Result: [valid, errors, warnings],
\* an error being the chain its message prints
RECURSIVE ValidateWalk(_, _, _, _)
ValidateWalk(currentId, getParentId, maxDepth, chain) ==
    IF currentId = NoExtends
    THEN [valid |-> TRUE, errors |-> <<>>, warnings |-> 0]
    ELSE IF Contains(chain, currentId)
    THEN [valid |-> FALSE, errors |-> << Append(chain, currentId) >>, warnings |-> 0]
    ELSE IF Len(chain) + 1 > maxDepth
    THEN [valid |-> TRUE, errors |-> <<>>, warnings |-> 1]
    ELSE ValidateWalk(getParentId[currentId], getParentId, maxDepth,
                      Append(chain, currentId))

validateInheritanceChain(configId, getParentId, maxDepth) ==
    ValidateWalk(configId, getParentId, maxDepth, <<>>)

\* step 3 of the validate command: getParentId is () => config.extends,
\* whatever id it is asked about
validateCommand(configId, lib) ==
    validateInheritanceChain(configId,
                             [id \in DOMAIN lib \cup {"missing"} |-> lib[configId].extends],
                             10)

(***************************************************************************)
(* File system.  files: absolute path -> content (the regular files);      *)
(* ds: the directories; e.noRead / e.noWrite: paths on which reading /     *)
(* writing or creating fails with EACCES.  Every operation appends what it *)
(* touched to an I/O trace of [op, path, content] records.                 *)
(***************************************************************************)
NoContent == <<>>

Io(op, path, content) == [op |-> op, path |-> path, content |-> content]

\* An error message: where it arose, the configuration path it names, its kind
Err(src, path, kind) == [src |-> src, path |-> path, kind |-> kind]

\* the directories mkdir -p visits, outermost first
AncestorsOf(d) ==
    LET segs == Normalize(Split(d, <<>>), <<>>)
    IN  [i \in 1..Len(segs) |-> AbsOf(SubSeq(segs, 1, i))]

\* mkdir(d, {recursive: true}) after the directories in todo; [ok, kind, ds, io]
RECURSIVE MkdirWalk(_, _, _, _, _)
MkdirWalk(todo, files, ds, e, io) ==
    IF todo = <<>> THEN [ok |-> TRUE, kind |-> "OK", ds |-> ds, io |-> io]
    ELSE LET d == Head(todo) IN
         IF d \in ds THEN MkdirWalk(Tail(todo), files, ds, e, io)
         ELSE IF d \in DOMAIN files
              THEN [ok |-> FALSE, kind |-> IF Len(todo) = 1 THEN "EEXIST" ELSE "ENOTDIR",
                    ds |-> ds, io |-> io]
         ELSE IF d \in e.noWrite
              THEN [ok |-> FALSE, kind |-> "PermissionDenied", ds |-> ds, io |-> io]
         ELSE MkdirWalk(Tail(todo), files, ds \cup {d}, e,
                        Append(io, Io("mkdir", d, NoContent)))

ensureDirectory(dirPath, files, ds, e) == MkdirWalk(AncestorsOf(dirPath), files, ds, e, <<>>)

\* writeFile with the EACCES translation of safeWriteFile; [ok, kind, files, io]
safeWriteFile(filePath, content, files, ds, e) ==
    IF filePath \in ds
    THEN [ok |-> FALSE, kind |-> "EISDIR", files |-> files, io |-> <<>>]
    ELSE IF filePath \in e.noWrite
    THEN [ok |-> FALSE, kind |-> "PermissionDenied", files |-> files, io |-> <<>>]
    ELSE IF dirname(filePath) \notin ds
    THEN [ok |-> FALSE, kind |-> "ENOENT", files |-> files, io |-> <<>>]
    ELSE [ok |-> TRUE, kind |-> "OK",
          files |-> [q \in DOMAIN files \cup {filePath} |->
                        IF q = filePath THEN content ELSE files[q]],
          io |-> <<Io("write", filePath, content)>>]

\* readFile(p, "utf-8"); [ok, kind, content, io]
readFile(filePath, files, e) ==
    IF filePath \notin DOMAIN files
    THEN [ok |-> FALSE, kind |-> "ENOENT", content |-> NoContent, io |-> <<>>]
    ELSE IF filePath \in e.noRead
    THEN [ok |-> FALSE, kind |-> "EACCES", content |-> NoContent, io |-> <<>>]
    ELSE [ok |-> TRUE, kind |-> "OK", content |-> files[filePath],
          io |-> <<Io("read", filePath, NoContent)>>]

(***************************************************************************)
(* project writer (validator.ts 306-354): writeFilesToProject              *)
(***************************************************************************)
\* validator.ts 317-321
WriteContent(file, w, st) ==
    IF ~w.ok THEN [st EXCEPT !.errors = Append(@, Err("write", file.path, w.kind))]
    ELSE [st EXCEPT !.files = w.files, !.io = @ \o w.io, !.created = Append(@, file.path)]

\* validator.ts 316
WriteInDirectory(file, filePath, m, st, e) ==
    IF ~m.ok
    THEN [st EXCEPT !.ds = m.ds, !.io = @ \o m.io,
                    !.errors = Append(@, Err("write", file.path, m.kind))]
    ELSE WriteContent(file, safeWriteFile(filePath, file.content, st.files, m.ds, e),
                      [st EXCEPT !.ds = m.ds, !.io = @ \o m.io])

\* WriteResolved swallowing a refused path: the file is dropped without an error
WriteResolvedSilently(file, r, st, e) ==
    IF ~r.ok THEN st
    ELSE WriteInDirectory(file, r.path, ensureDirectory(dirname(r.path), st.files, st.ds, e),
                          st, e)

\* validator.ts 315
WriteResolved(file, r, st, e) ==
    IF ~r.ok THEN [st EXCEPT !.errors = Append(@, Err("write", file.path, r.kind))]
    ELSE WriteInDirectory(file, r.path, ensureDirectory(dirname(r.path), st.files, st.ds, e),
                          st, e)

\* the body of the for loop: one file, its failure caught and recorded
WriteOneFile(file, projectPath, st, e) ==
    WriteResolved(file, resolveSafePath(projectPath, file.path), st, e)

\* WriteLoop without the per-file try/catch: the first failure ends the batch
RECURSIVE WriteLoopFailFast(_, _, _, _)
WriteLoopFailFast(files, projectPath, st, e) ==
    IF files = <<>> \/ st.errors # <<>> THEN st
    ELSE WriteLoopFailFast(Tail(files), projectPath,
                           WriteOneFile(Head(files), projectPath, st, e), e)

RECURSIVE WriteLoop(_, _, _, _)
WriteLoop(files, projectPath, st, e) ==
    IF files = <<>> THEN st
    ELSE WriteLoop(Tail(files), projectPath, WriteOneFile(Head(files), projectPath, st, e), e)

\* [files, ds, io, created, errors]
writeFilesToProject(filesToWrite, projectPath, files, ds, e) ==
    WriteLoop(filesToWrite, projectPath,
              [files |-> files, ds |-> ds, io |-> <<>>, created |-> <<>>, errors |-> <<>>],
              e)

(***************************************************************************)
(* detector.ts: ConflictDetector                                           *)
(***************************************************************************)
\* [exists, io]: stat is attempted only on a path resolveSafePath returned
StatIsFile(r, files) ==
    IF ~r.ok THEN [exists |-> FALSE, io |-> <<>>]
    ELSE [exists |-> r.path \in DOMAIN files, io |-> <<Io("stat", r.path, NoContent)>>]

\* fileExists without the path guard: stat on the joined path
fileExistsUnguarded(targetPath, relativePath, files) ==
    StatIsFile(PathOk(resolve(targetPath, relativePath)), files)

fileExists(targetPath, relativePath, files) ==
    StatIsFile(resolveSafePath(targetPath, relativePath), files)

\* ConflictPush ignoring the outcome of fileExists: every new file conflicts
ConflictPushAlways(file, x, acc) ==
    [conflicts |-> Append(acc.conflicts, file), io |-> acc.io \o x.io]

\* detector.ts 113-115
ConflictPush(file, x, acc) ==
    [conflicts |-> IF x.exists THEN Append(acc.conflicts, file) ELSE acc.conflicts,
     io |-> acc.io \o x.io]

RECURSIVE ConflictLoop(_, _, _, _)
ConflictLoop(newFiles, targetPath, files, acc) ==
    IF newFiles = <<>> THEN acc
    ELSE ConflictLoop(Tail(newFiles), targetPath, files,
                      ConflictPush(Head(newFiles), fileExists(targetPath, Head(newFiles), files),
                                   acc))

\* [conflicts, io]
getConflictingFiles(targetPath, newFiles, files) ==
    ConflictLoop(newFiles, targetPath, files, [conflicts |-> <<>>, io |-> <<>>])

(***************************************************************************)
(* apply/index.ts: ApplyOrchestrator                                       *)
(***************************************************************************)
EmptyResult ==
    [success |-> FALSE, filesCreated |-> <<>>, filesModified |-> <<>>,
     filesSkipped |-> <<>>, conflicts |-> <<>>, errors |-> <<>>]

\* mergedContent is NoContent when the field is absent
ConflictInfo(path, existingContent, newContent, mergedContent) ==
    [path |-> path, existingContent |-> existingContent, newContent |-> newContent,
     mergedContent |-> mergedContent]

\* What a call leaves behind: the ApplyResult it returns, or the
\* ConflictDetectedError it throws, and the file system after it
Returned(res, files, ds, io) ==
    [outcome |-> "returned", thrownPaths |-> <<>>, result |-> res,
     files |-> files, ds |-> ds, io |-> io]

Thrown(paths, files, ds, io) ==
    [outcome |-> "thrown", thrownPaths |-> paths, result |-> EmptyResult,
     files |-> files, ds |-> ds, io |-> io]

Paths(fileList) == [i \in 1..Len(fileList) |-> fileList[i].path]

NoError == Err("", <<>>, "")

\* index.ts 68-75: resolveSafePath, readFile, push; acc = [conflicts, io, failed, error]
ConflictInfoRead(file, rd, acc) ==
    IF ~rd.ok THEN [acc EXCEPT !.failed = TRUE, !.error = Err("apply", file.path, rd.kind)]
    ELSE [acc EXCEPT !.io = @ \o rd.io,
                     !.conflicts = Append(@, ConflictInfo(file.path, rd.content,
                                                          file.content, NoContent))]

ConflictInfoStep(file, r, files, e, acc) ==
    IF ~r.ok THEN [acc EXCEPT !.failed = TRUE, !.error = Err("apply", file.path, r.kind)]
    ELSE ConflictInfoRead(file, readFile(r.path, files, e), acc)

\* index.ts 66-77: one ConflictInfo per conflicting file; a failing read throws
RECURSIVE ConflictInfoLoop(_, _, _, _, _, _)
ConflictInfoLoop(filesToApply, conflictingFiles, targetPath, files, e, acc) ==
    IF filesToApply = <<>> \/ acc.failed THEN acc
    ELSE IF ~Contains(conflictingFiles, Head(filesToApply).path)
    THEN ConflictInfoLoop(Tail(filesToApply), conflictingFiles, targetPath, files, e, acc)
    ELSE ConflictInfoLoop(Tail(filesToApply), conflictingFiles, targetPath, files, e,
                          ConflictInfoStep(Head(filesToApply),
                                           resolveSafePath(targetPath, Head(filesToApply).path),
                                           files, e, acc))

\* index.ts 86-100: the dry-run classification of one file
DryRunStep(file, isConflict, mode, res) ==
    IF isConflict
    THEN IF mode = "replace" THEN [res EXCEPT !.filesModified = Append(@, file.path)]
         ELSE IF mode = "merge" THEN [res EXCEPT !.filesModified = Append(@, file.path)]
         ELSE [res EXCEPT !.conflicts =
                 Append(@, ConflictInfo(file.path, EmptyContent, file.content, NoContent))]
    ELSE [res EXCEPT !.filesCreated = Append(@, file.path)]

RECURSIVE DryRunLoop(_, _, _, _)
DryRunLoop(filesToApply, conflictingFiles, mode, res) ==
    IF filesToApply = <<>> THEN res
    ELSE DryRunLoop(Tail(filesToApply), conflictingFiles, mode,
                    DryRunStep(Head(filesToApply),
                               Contains(conflictingFiles, Head(filesToApply).path), mode, res))

\* index.ts 127-142: the outcome of mergeContent decides between conflict and write
MergeDecide(file, existingContent, mergeResult, acc) ==
    IF mergeResult.hasConflicts
    THEN [acc EXCEPT !.res.conflicts =
                        Append(@, ConflictInfo(file.path, existingContent, file.content,
                                               mergeResult.content))]
    ELSE [acc EXCEPT !.filesToWrite = Append(@, [file EXCEPT !.content = mergeResult.content]),
                     !.res.filesModified = Append(@, file.path)]

\* index.ts 123-125
MergeRead(file, rd, acc) ==
    IF ~rd.ok THEN [acc EXCEPT !.failed = TRUE, !.error = Err("apply", file.path, rd.kind)]
    ELSE MergeDecide(file, rd.content, mergeContent(rd.content, file.content, file.path),
                     [acc EXCEPT !.io = @ \o rd.io])

\* index.ts 122
MergeStep(file, r, files, e, acc) ==
    IF ~r.ok THEN [acc EXCEPT !.failed = TRUE, !.error = Err("apply", file.path, r.kind)]
    ELSE MergeRead(file, readFile(r.path, files, e), acc)

\* LiveStep with the replace arm lost: an existing file is skipped in replace mode
LiveStepSkipExisting(file, isConflict, mode, targetPath, files, e, acc) ==
    IF ~isConflict
    THEN [acc EXCEPT !.filesToWrite = Append(@, file),
                     !.res.filesCreated = Append(@, file.path)]
    ELSE IF mode = "merge"
    THEN MergeStep(file, resolveSafePath(targetPath, file.path), files, e, acc)
    ELSE [acc EXCEPT !.res.filesSkipped = Append(@, file.path)]

\* index.ts 110-146: one file of the live loop; acc = [res, filesToWrite, io, failed, error]
LiveStep(file, isConflict, mode, targetPath, files, e, acc) ==
    IF ~isConflict
    THEN [acc EXCEPT !.filesToWrite = Append(@, file),
                     !.res.filesCreated = Append(@, file.path)]
    ELSE IF mode = "replace"
    THEN [acc EXCEPT !.filesToWrite = Append(@, file),
                     !.res.filesModified = Append(@, file.path)]
    ELSE IF mode = "merge"
    THEN MergeStep(file, resolveSafePath(targetPath, file.path), files, e, acc)
    ELSE [acc EXCEPT !.res.filesSkipped = Append(@, file.path)]

RECURSIVE LiveLoop(_, _, _, _, _, _, _)
LiveLoop(filesToApply, conflictingFiles, mode, targetPath, files, e, acc) ==
    IF filesToApply = <<>> \/ acc.failed THEN acc
    ELSE LiveLoop(Tail(filesToApply), conflictingFiles, mode, targetPath, files, e,
                  LiveStep(Head(filesToApply),
                           Contains(conflictingFiles, Head(filesToApply).path),
                           mode, targetPath, files, e, acc))

NoWrite(files, ds) ==
    [files |-> files, ds |-> ds, io |-> <<>>, created |-> <<>>, errors |-> <<>>]

\* ApplyFinish computing success from the errors alone, the conflicts forgotten
ApplyFinishIgnoringConflicts(res, writeResult, io) ==
    Returned([res EXCEPT !.errors = @ \o writeResult.errors,
                         !.success = (Len(res.errors \o writeResult.errors) = 0)],
             writeResult.files, writeResult.ds, io \o writeResult.io)

\* index.ts 152-155
ApplyFinish(res, writeResult, io) ==
    Returned([res EXCEPT !.errors = @ \o writeResult.errors,
                         !.success = (Len(res.errors \o writeResult.errors) = 0
                                      /\ Len(res.conflicts) = 0)],
             writeResult.files, writeResult.ds, io \o writeResult.io)

\* index.ts 149-161: the batch write, or the catch of what the loop threw
ApplyWrite(live, targetPath, files, ds, e, io) ==
    IF live.failed
    THEN Returned([live.res EXCEPT !.errors = <<live.error>>], files, ds, io \o live.io)
    ELSE ApplyFinish(live.res,
                     IF Len(live.filesToWrite) > 0
                     THEN writeFilesToProject(live.filesToWrite, targetPath, files, ds, e)
                     ELSE NoWrite(files, ds),
                     io \o live.io)

\* index.ts 66-81
ApplyConflictInfos(infos, files, ds, io) ==
    Returned([EmptyResult EXCEPT !.conflicts = infos.conflicts,
                                 !.errors = IF infos.failed THEN <<infos.error>> ELSE <<>>],
             files, ds, io \o infos.io)

\* index.ts 59-155, once the conflicting files are known
ApplyByMode(filesToApply, conflictingFiles, options, files, ds, e, io) ==
    IF options.mode = "create" /\ Len(conflictingFiles) > 0
    THEN IF options.noInteractive
         THEN Thrown(conflictingFiles, files, ds, io)
         ELSE ApplyConflictInfos(
                ConflictInfoLoop(filesToApply, conflictingFiles, options.targetPath, files, e,
                                 [conflicts |-> <<>>, io |-> <<>>, failed |-> FALSE,
                                  error |-> NoError]),
                files, ds, io)
    ELSE IF options.dryRun
    THEN Returned([DryRunLoop(filesToApply, conflictingFiles, options.mode, EmptyResult)
                     EXCEPT !.success = TRUE],
                  files, ds, io)
    ELSE ApplyWrite(LiveLoop(filesToApply, conflictingFiles, options.mode, options.targetPath,
                             files, e,
                             [res |-> EmptyResult, filesToWrite |-> <<>>, io |-> <<>>,
                              failed |-> FALSE, error |-> NoError]),
                    options.targetPath, files, ds, e, io)

\* index.ts 53-57
ApplyDetect(filesToApply, det, options, files, ds, e, io) ==
    ApplyByMode(filesToApply, det.conflicts, options, files, ds, e, io \o det.io)

\* index.ts 50-51: a failing ensureDirectory lands in the outer catch
ApplyInDirectory(filesToApply, dir, options, files, e) ==
    IF ~dir.ok
    THEN Returned([EmptyResult EXCEPT !.errors = <<Err("apply", <<>>, dir.kind)>>],
                  files, dir.ds, dir.io)
    ELSE ApplyDetect(filesToApply,
                     getConflictingFiles(options.targetPath, Paths(filesToApply), files),
                     options, files, dir.ds, e, dir.io)

\* ApplyResolved with the target directory ensured before resolution is examined
ApplyResolvedDirectoryFirst(resolved, options, files, ds, e) ==
    IF ~resolved.ok
    THEN Returned([EmptyResult EXCEPT !.errors = <<Err("resolve", <<>>, resolved.kind)>>],
                  files,
                  ensureDirectory(options.targetPath, files, ds, e).ds,
                  ensureDirectory(options.targetPath, files, ds, e).io)
    ELSE ApplyInDirectory(resolved.resolvedFiles,
                          ensureDirectory(options.targetPath, files, ds, e),
                          options, files, e)

\* index.ts 40-48
ApplyResolved(resolved, options, files, ds, e) ==
    IF ~resolved.ok
    THEN Returned([EmptyResult EXCEPT !.errors = <<Err("resolve", <<>>, resolved.kind)>>],
                  files, ds, <<>>)
    ELSE ApplyInDirectory(resolved.resolvedFiles,
                          ensureDirectory(options.targetPath, files, ds, e),
                          options, files, e)

\* options = [targetPath, mode, dryRun, noInteractive]; lib is getConfig
applyConfiguration(config, options, lib, files, ds, e) ==
    ApplyResolved(resolveInheritance(config, lib), options, files, ds, e)

\* ResolvedLoop testing for "skip" alone: a kept file is written like a replaced one
RECURSIVE ResolvedLoopWritesKept(_, _)
ResolvedLoopWritesKept(resolvedConflicts, acc) ==
    IF resolvedConflicts = <<>> THEN acc
    ELSE LET resolved == Head(resolvedConflicts)
             next ==
               IF resolved.resolution = "skip"
               THEN [acc EXCEPT !.res.filesSkipped = Append(@, resolved.path)]
               ELSE [acc EXCEPT !.filesToWrite =
                                   Append(@, File(resolved.path, resolved.content, "text")),
                                !.res.filesModified = Append(@, resolved.path)]
         IN  ResolvedLoopWritesKept(Tail(resolvedConflicts), next)

\* index.ts 188-199; acc = [res, filesToWrite]
RECURSIVE ResolvedLoop(_, _)
ResolvedLoop(resolvedConflicts, acc) ==
    IF resolvedConflicts = <<>> THEN acc
    ELSE LET resolved == Head(resolvedConflicts)
             next ==
               IF resolved.resolution = "skip" \/ resolved.resolution = "keep"
               THEN [acc EXCEPT !.res.filesSkipped = Append(@, resolved.path)]
               ELSE [acc EXCEPT !.filesToWrite =
                                   Append(@, File(resolved.path, resolved.content, "text")),
                                !.res.filesModified = Append(@, resolved.path)]
         IN  ResolvedLoop(Tail(resolvedConflicts), next)

\* index.ts 203-207
ApplyResolvedFinish(res, writeResult) ==
    Returned([res EXCEPT !.errors = writeResult.errors,
                         !.success = (Len(writeResult.errors) = 0)],
             writeResult.files, writeResult.ds, writeResult.io)

\* index.ts 201-207
ResolvedWrite(loop, targetPath, files, ds, e) ==
    ApplyResolvedFinish(loop.res,
                        IF Len(loop.filesToWrite) > 0
                        THEN writeFilesToProject(loop.filesToWrite, targetPath, files, ds, e)
                        ELSE NoWrite(files, ds))

\* resolvedConflicts: sequence of [path, resolution, content]
applyWithResolvedConflicts(resolvedConflicts, targetPath, files, ds, e) ==
    ResolvedWrite(ResolvedLoop(resolvedConflicts,
                               [res |-> EmptyResult, filesToWrite |-> <<>>]),
                  targetPath, files, ds, e)

\* index.ts 232-236: what previewApply keeps of the ApplyResult
PreviewProjection(res) ==
    [filesToCreate |-> res.filesCreated,
     filesToModify |-> res.filesModified,
     conflicts |-> Paths(res.conflicts)]

\* index.ts 221-230: applyConfiguration in create mode with dryRun, noInteractive unset
previewApply(config, targetPath, lib, files, ds, e) ==
    applyConfiguration(config,
                       [targetPath |-> targetPath, mode |-> "create",
                        dryRun |-> TRUE, noInteractive |-> FALSE],
                       lib, files, ds, e)

(***************************************************************************)
(* The configurations, targets and environments the model draws from       *)
(***************************************************************************)
TargetPath == <<"/", "t", "/", "p">>
ParentDir == <<"/", "t">>
RootDir == <<"/">>

PA == <<"a", ".", "t", "x", "t">>
PJ == <<"s", ".", "j", "s", "o", "n">>
PM == <<"c", ".", "m", "d">>
PSub == <<"d", "/", "a", ".", "t", "x", "t">>
PEvil == <<".", ".", "/", "e", ".", "t", "x", "t">>

\* path.join(TargetPath, p), certified or not
AbsIn(p) == resolve(TargetPath, p)

Config(id, extends, fileContents) ==
    [id |-> id, extends |-> extends, fileContents |-> fileContents]

MdDoc == <<"# A", "foo", "# B", "bar">>

\* getConfig: the library the orchestrator is given
Library ==
    [id \in {"base", "child", "evil", "cycA", "cycB", "orphan"} |->
       CASE id = "base" ->
              Config(id, NoExtends,
                     << File(PA, <<"x">>, "text"),
                        File(PJ, JsonText("json:compact", JsonA), "json") >>)
         [] id = "child" ->
              Config(id, "base",
                     << File(PA, <<"y">>, "text"),
                        File(PJ, JsonText("json:compact", JsonB), "json"),
                        File(PM, MdDoc, "markdown") >>)
         [] id = "evil" ->
              Config(id, NoExtends,
                     << File(PEvil, <<"nope">>, "text"),
                        File(PSub, <<"x">>, "text"),
                        File(PA, <<"x">>, "text") >>)
         [] id = "cycA" -> Config(id, "cycB", << File(PA, <<"x">>, "text") >>)
         [] id = "cycB" -> Config(id, "cycA", << File(PA, <<"y">>, "text") >>)
         [] id = "orphan" -> Config(id, "missing", << File(PA, <<"x">>, "text") >>)]

Modes == {"create", "replace", "merge"}

Resolutions == {"keep", "replace", "merge", "skip"}

Resolved(path, resolution, content) ==
    [path |-> path, resolution |-> resolution, content |-> content]

ResolvedEntries ==
    { Resolved(PA, r, <<"r">>) : r \in {"keep", "replace", "skip"} }
      \cup { Resolved(PEvil, "replace", <<"r">>), Resolved(PJ, "merge", <<"not json">>) }

\* the lists of at most MaxResolved entries, no path twice
ResolvedInputs ==
    UNION { { l \in [1..n -> ResolvedEntries] :
                \A i, j \in 1..n : i # j => l[i].path # l[j].path } : n \in 1..MaxResolved }

\* a file outside every target, which a traversal path would reach
OutsideFiles == (AbsIn(PEvil) :> <<"secret">>)

NoDenial == [noRead |-> {}, noWrite |-> {}]

\* the target before the first call, with the permissions in force:
\* [files, ds, e]
InitialTargets ==
    LET absent == [files |-> OutsideFiles, ds |-> {RootDir, ParentDir}]
        populated ==
          [files |-> OutsideFiles @@ (AbsIn(PA) :> <<"z">>)
                      @@ (AbsIn(PJ) :> JsonText("json:compact", JsonC))
                      @@ (AbsIn(PM) :> <<"# A", "old">>),
           ds |-> {RootDir, ParentDir, TargetPath}]
        plain ==
          [files |-> OutsideFiles @@ (AbsIn(PA) :> <<"x">>)
                      @@ (AbsIn(PJ) :> <<"not json">>),
           ds |-> {RootDir, ParentDir, TargetPath}]
        With(t, e) == [files |-> t.files, ds |-> t.ds, e |-> e]
    IN  { With(absent, NoDenial),
          With(absent, [noRead |-> {}, noWrite |-> {TargetPath}]),
          With(populated, NoDenial),
          With(populated, [noRead |-> {AbsIn(PJ)}, noWrite |-> {}]),
          With(populated, [noRead |-> {}, noWrite |-> {AbsIn(PJ)}]),
          With(plain, NoDenial),
          With(plain, [noRead |-> {AbsIn(PJ)}, noWrite |-> {}]),
          With(plain, [noRead |-> {}, noWrite |-> {AbsIn(PJ)}]) }

\* the configurations a caller applies
AppliedIds == {"base", "child", "evil", "cycA", "orphan"}

(***************************************************************************)
(* State machine: a caller issuing orchestrator calls on one target        *)
(***************************************************************************)
Call(op, config, mode, dryRun, noInteractive, resolved) ==
    [op |-> op, config |-> config, mode |-> mode, dryRun |-> dryRun,
     noInteractive |-> noInteractive, resolved |-> resolved]

NoCall == Call("none", "", "", FALSE, FALSE, <<>>)

Init ==
    /\ \E t \in InitialTargets : fs = t.files /\ dirs = t.ds /\ env = t.e
    /\ call = NoCall
    /\ result = [outcome |-> "none", thrownPaths |-> <<>>, result |-> EmptyResult]
    /\ log = <<>>
    /\ fsBefore = fs
    /\ dirsBefore = dirs
    /\ calls = 0

Finish(c, out) ==
    /\ call' = c
    /\ result' = [outcome |-> out.outcome, thrownPaths |-> out.thrownPaths,
                  result |-> out.result]
    /\ log' = out.io
    /\ fs' = out.files
    /\ dirs' = out.ds
    /\ fsBefore' = fs
    /\ dirsBefore' = dirs
    /\ calls' = calls + 1
    /\ UNCHANGED env

ApplyConfiguration ==
    /\ calls < MaxCalls
    /\ \E id \in AppliedIds, mode \in Modes, dryRun \in BOOLEAN, noInteractive \in BOOLEAN :
         Finish(Call("apply", id, mode, dryRun, noInteractive, <<>>),
                applyConfiguration(Library[id],
                                   [targetPath |-> TargetPath, mode |-> mode,
                                    dryRun |-> dryRun, noInteractive |-> noInteractive],
                                   Library, fs, dirs, env))

ApplyWithResolvedConflicts ==
    /\ calls < MaxCalls
    /\ \E rs \in ResolvedInputs :
         Finish(Call("resolved", "", "", FALSE, FALSE, rs),
                applyWithResolvedConflicts(rs, TargetPath, fs, dirs, env))

\* previewApply: the call leaves the ApplyResult it was built from and its projection
PreviewApply ==
    /\ calls < MaxCalls
    /\ \E id \in AppliedIds :
         LET out == previewApply(Library[id], TargetPath, Library, fs, dirs, env)
         IN  /\ call' = Call("preview", id, "create", TRUE, FALSE, <<>>)
             /\ result' = [outcome |-> "previewed", thrownPaths |-> out.thrownPaths,
                           result |-> out.result,
                           preview |-> PreviewProjection(out.result)]
             /\ log' = out.io
             /\ fs' = out.files
             /\ dirs' = out.ds
             /\ fsBefore' = fs
             /\ dirsBefore' = dirs
             /\ calls' = calls + 1
             /\ UNCHANGED env

Next == ApplyConfiguration \/ ApplyWithResolvedConflicts \/ PreviewApply

Spec == Init /\ [][Next]_vars

(***************************************************************************)
(* resolveInheritance on its own: every lookup table over three ids, each  *)
(* id extending nothing, one of the three, or an id the table lacks        *)
(***************************************************************************)
ChainIds == {"A", "B", "C"}

ExtendsChoices == ChainIds \cup {NoExtends, "missing"}

\* who extends whom
LookupTables == [ChainIds -> ExtendsChoices]

\* getConfig backed by the table: each configuration carries one file of its own
\* and one file every configuration declares
TableLibrary(t) ==
    [id \in ChainIds |->
       Config(id, t[id], << File(<<id>>, <<id>>, "text"), File(PA, <<id>>, "text") >>)]

QuietFileSystem ==
    /\ fs = OutsideFiles
    /\ dirs = {RootDir, ParentDir}
    /\ env = NoDenial
    /\ log = <<>>
    /\ fsBefore = OutsideFiles
    /\ dirsBefore = {RootDir, ParentDir}
    /\ calls = 0

ResolverInit ==
    /\ QuietFileSystem
    /\ call = [op |-> "none", start |-> "A", table |-> [id \in ChainIds |-> NoExtends]]
    /\ result = [ok |-> FALSE, kind |-> "none", chain |-> <<>>, lookups |-> 0,
                 resolvedFiles |-> <<>>]

ResolveInheritance ==
    /\ calls = 0
    /\ \E t \in LookupTables, start \in ChainIds :
         /\ call' = [op |-> "resolveInheritance", start |-> start, table |-> t]
         /\ result' = resolveInheritance(TableLibrary(t)[start], TableLibrary(t))
    /\ calls' = calls + 1
    /\ UNCHANGED <<fs, dirs, env, log, fsBefore, dirsBefore>>

ResolverSpec == ResolverInit /\ [][ResolveInheritance]_vars

(***************************************************************************)
(* mergeConfigurationChain on its own: chains of configurations whose file *)
(* lists hold at most MaxEntries entries in all                            *)
(***************************************************************************)
\* entries in the file lists of one chain
MaxEntries == 3

PY == <<"k", ".", "y", "m", "l">>

Flagged(file, override, exclude) ==
    [file EXCEPT !.override = override, !.exclude = exclude]

\* plain, overriding and excluding entries for a markdown path; plain entries,
\* one of them empty, for a yaml path
EntryUniverse ==
    { Flagged(File(PM, c, "markdown"), fl[1], fl[2]) :
        c \in { <<"# A", "1">>, <<"# B", "2">> },
        fl \in { <<FALSE, FALSE>>, <<TRUE, FALSE>>, <<FALSE, TRUE>> } }
      \cup { File(PY, c, "yaml") : c \in { EmptyContent, <<"v">> } }

EntryLists == UNION { [1..n -> EntryUniverse] : n \in 1..MaxEntries }

\* the entries as the file lists of a chain, root first: a new configuration
\* starts after every position in cuts
RECURSIVE ChainOf(_, _, _, _)
ChainOf(entries, cuts, i, acc) ==
    IF i > Len(entries) THEN acc
    ELSE LET last == acc[Len(acc)]
             grown == [acc EXCEPT ![Len(acc)] =
                         [last EXCEPT !.fileContents = Append(@, entries[i])]]
         IN  ChainOf(entries, cuts, i + 1,
                     IF i \in cuts /\ i < Len(entries)
                     THEN Append(grown, Config("next", NoExtends, <<>>))
                     ELSE grown)

FoldInit ==
    /\ QuietFileSystem
    /\ call = [op |-> "none", entries |-> <<>>, configs |-> <<>>]
    /\ result = [resolvedFiles |-> <<>>]

MergeConfigurationChain ==
    /\ calls = 0
    /\ \E entries \in EntryLists :
         \E cuts \in SUBSET (1..(Len(entries) - 1)) :
           LET configs == ChainOf(entries, cuts, 1, << Config("root", NoExtends, <<>>) >>)
           IN  /\ call' = [op |-> "mergeConfigurationChain", entries |-> entries,
                           configs |-> configs]
               /\ result' = [resolvedFiles |-> mergeConfigurationChain(configs)]
    /\ calls' = calls + 1
    /\ UNCHANGED <<fs, dirs, env, log, fsBefore, dirsBefore>>

FoldSpec == FoldInit /\ [][MergeConfigurationChain]_vars

(***************************************************************************)
(* The merge of one inherited entry: a root configuration with one entry   *)
(* and a child configuration with a plain entry for the same path          *)
(***************************************************************************)
FileTypes == {"markdown", "json", "yaml", "text"}

\* contents of every kind: markdown with a shared heading, parseable JSON,
\* text that is no JSON, the empty content
MergeContents ==
    { <<"# A", "1">>, <<"# A", "2", "# B", "3">>,
      JsonText("json:compact", JsonA), JsonText("json:compact", JsonB),
      <<"not json">>, EmptyContent }

MergeFilesInit ==
    /\ QuietFileSystem
    /\ call = [op |-> "none", parent |-> File(PA, EmptyContent, "text"),
               child |-> File(PA, EmptyContent, "text")]
    /\ result = [resolvedFiles |-> <<>>]

\* the child entry may lack its type
MergeFiles ==
    /\ calls = 0
    /\ \E pt \in FileTypes, ct \in FileTypes \cup {""}, pc \in MergeContents,
          cc \in MergeContents :
         /\ call' = [op |-> "mergeFiles", parent |-> File(PA, pc, pt),
                     child |-> File(PA, cc, ct)]
         /\ result' = [resolvedFiles |->
                         mergeConfigurationChain(
                           << Config("root", NoExtends, << File(PA, pc, pt) >>),
                              Config("child", "root", << File(PA, cc, ct) >>) >>)]
    /\ calls' = calls + 1
    /\ UNCHANGED <<fs, dirs, env, log, fsBefore, dirsBefore>>

MergeFilesSpec == MergeFilesInit /\ [][MergeFiles]_vars

(***************************************************************************)
(* ContentMerger on its own: mergeContent on a file path and two contents  *)
(***************************************************************************)
\* one path per file type
MergerPaths == {PM, PJ, PY, PA}

\* markdown documents that share headings with equal and with different
\* bodies, one that has a heading twice, JSON objects, a text that is no JSON,
\* the empty content, a text that holds a conflict block already
MergerContents ==
    { <<"# A", "foo", "# B", "bar">>, <<"# B", "baz", "# C", "qux">>,
      <<"# A", "foo">>, <<"top", "# B", "bar">>, <<"# A", "foo", "# A", "bar">>,
      JsonText("json:compact", JsonA), JsonText("json:compact", JsonB),
      JsonText("json:compact", JsonC), JsonText("json:compact", JsonD),
      <<"not json">>, EmptyContent,
      <<"<<<<<<< EXISTING", "a", "=======", "b", ">>>>>>> NEW">> }

MergerInit ==
    /\ QuietFileSystem
    /\ call = [op |-> "none", filePath |-> PA, existingContent |-> EmptyContent,
               newContent |-> EmptyContent]
    /\ result = MergeResult(TRUE, EmptyContent, FALSE, 0)

MergeContent ==
    /\ calls = 0
    /\ \E filePath \in MergerPaths, existingContent \in MergerContents,
          newContent \in MergerContents :
         /\ call' = [op |-> "mergeContent", filePath |-> filePath,
                     existingContent |-> existingContent, newContent |-> newContent]
         /\ result' = mergeContent(existingContent, newContent, filePath)
    /\ calls' = calls + 1
    /\ UNCHANGED <<fs, dirs, env, log, fsBefore, dirsBefore>>

MergerSpec == MergerInit /\ [][MergeContent]_vars

(***************************************************************************)
(* ConflictDetector on its own: getConflictingFiles on a target and a list *)
(* of candidate paths                                                      *)
(***************************************************************************)
\* longest candidate list
MaxCandidates == 3

\* files of the target, a missing file, a traversal that reaches a real file
\* outside the target, and the target directory itself
CandidatePaths == {PA, PM, PSub, PEvil, <<".">>}

DetectorInit ==
    /\ \E t \in InitialTargets :
         fs = t.files /\ dirs = t.ds /\ env = t.e /\ fsBefore = t.files /\ dirsBefore = t.ds
    /\ call = [op |-> "none", targetPath |-> TargetPath, newFiles |-> <<>>]
    /\ result = [conflicts |-> <<>>]
    /\ log = <<>>
    /\ calls = 0

GetConflictingFiles ==
    /\ calls = 0
    /\ \E n \in 1..MaxCandidates : \E newFiles \in [1..n -> CandidatePaths] :
         LET out == getConflictingFiles(TargetPath, newFiles, fs)
         IN  /\ call' = [op |-> "getConflictingFiles", targetPath |-> TargetPath,
                         newFiles |-> newFiles]
             /\ result' = [conflicts |-> out.conflicts]
             /\ log' = out.io
    /\ calls' = calls + 1
    /\ UNCHANGED <<fs, dirs, env, fsBefore, dirsBefore>>

DetectorSpec == DetectorInit /\ [][GetConflictingFiles]_vars

(***************************************************************************)
(* PathGuard on its own: resolveSafePath on a base directory and a path    *)
(***************************************************************************)
\* a filesystem root, a directory below it, the target, the target written
\* with a trailing separator
GuardBases == {RootDir, ParentDir, TargetPath, TargetPath \o sep}

\* the empty path, absolute, drive-letter and UNC forms, and the relative
\* paths of one to three segments: "../pp" names a sibling of the target that
\* has the target's path as a string prefix, "../p/a" leaves the target and
\* comes back
GuardPaths ==
    LET S == {<<".", ".">>, <<".">>, <<"a">>, <<"p">>, <<"p", "p">>}
    IN  { <<>>, <<"/", "t", "/", "p", "/", "a">>, <<"/", "e">>,
          <<"C", ":", "\\", "x">>, <<"C", ":", "/", "x">>, <<"\\", "\\", "s", "\\", "x">> }
          \cup S
          \cup { a \o sep \o b : a \in S, b \in S }
          \cup { a \o sep \o b \o sep \o c : a \in S, b \in S, c \in S }

PathGuardInit ==
    /\ QuietFileSystem
    /\ call = [op |-> "none", baseDir |-> TargetPath, relativePath |-> <<>>]
    /\ result = PathErr("none")

ResolveSafePath ==
    /\ calls = 0
    /\ \E baseDir \in GuardBases, relativePath \in GuardPaths :
         /\ call' = [op |-> "resolveSafePath", baseDir |-> baseDir,
                     relativePath |-> relativePath]
         /\ result' = resolveSafePath(baseDir, relativePath)
    /\ calls' = calls + 1
    /\ UNCHANGED <<fs, dirs, env, log, fsBefore, dirsBefore>>

PathGuardSpec == PathGuardInit /\ [][ResolveSafePath]_vars

(***************************************************************************)
(* The validate command on any configuration of any lookup table           *)
(***************************************************************************)
RunValidateCommand ==
    /\ calls = 0
    /\ \E t \in LookupTables, configId \in ChainIds :
         /\ call' = [op |-> "validate", start |-> configId, table |-> t]
         /\ result' = validateCommand(configId, TableLibrary(t))
    /\ calls' = calls + 1
    /\ UNCHANGED <<fs, dirs, env, log, fsBefore, dirsBefore>>

ValidateSpec == ResolverInit /\ [][RunValidateCommand]_vars

(***************************************************************************)
(* What the last call was given, and what it left behind                   *)
(***************************************************************************)
Segments(p) == Normalize(Split(p, <<>>), <<>>)

\* p names something strictly below the target directory
UnderTarget(p) ==
    LET t == Segments(TargetPath)
        s == Segments(p)
    IN  Len(s) > Len(t) /\ SubSeq(s, 1, Len(t)) = t

IsApply == call.op = "apply"

IsSecondPhase == call.op = "resolved"

ResolutionOfCall == resolveInheritance(Library[call.config], Library)

ResolutionSucceeded == IsApply /\ ResolutionOfCall.ok

\* the resolved files of the last applyConfiguration, in resolved-file order
ResolvedFilesOfCall == IF ResolutionSucceeded THEN ResolutionOfCall.resolvedFiles ELSE <<>>

\* the path was a regular file of the target when the call began
ExistedBefore(path) == UnderTarget(AbsIn(path)) /\ AbsIn(path) \in DOMAIN fsBefore

ExistingPaths == SelectSeq(Paths(ResolvedFilesOfCall), LAMBDA p : ExistedBefore(p))

LogHas(op, path) == \E i \in DOMAIN log : log[i].op = op /\ log[i].path = path

NothingWritten ==
    /\ fs = fsBefore
    /\ \A i \in DOMAIN log : log[i].op # "write"

ErrorFor(path) ==
    \E i \in DOMAIN result.result.errors : result.result.errors[i].path = path

\* C1: every write, read and existence check of a call is on a path below the
\* target directory, the conflicts a call reports are paths below the target,
\* and no file outside the target is created, modified or removed.
C1_IoStaysInTarget ==
    /\ \A i \in DOMAIN log :
         log[i].op \in {"stat", "read", "write"} => UnderTarget(log[i].path)
    /\ \A i \in DOMAIN result.thrownPaths : UnderTarget(AbsIn(result.thrownPaths[i]))
    /\ \A i \in DOMAIN result.result.conflicts :
         UnderTarget(AbsIn(result.result.conflicts[i].path))
    /\ \A p \in DOMAIN fs \cup DOMAIN fsBefore :
         ~UnderTarget(p) => p \in DOMAIN fs /\ p \in DOMAIN fsBefore /\ fs[p] = fsBefore[p]

\* a live apply of a configuration with an escaping path: the escaping file is
\* refused, its sibling below the target is written
C1_Witness ==
    /\ IsApply /\ call.config = "evil" /\ ~call.dryRun
    /\ \E i \in DOMAIN result.result.errors :
         result.result.errors[i] = Err("write", PEvil, "OUTSIDE_BASE")
    /\ LogHas("write", AbsIn(PSub))

\* C2: create mode with noInteractive and at least one resolved path already a
\* regular file of the target raises ConflictDetected carrying exactly those
\* paths in resolved-file order, and writes no file.
C2_CreateNoInteractiveThrows ==
    (IsApply /\ call.mode = "create" /\ call.noInteractive
       /\ ResolutionSucceeded /\ ExistingPaths # <<>>)
    => /\ result.outcome = "thrown"
       /\ result.thrownPaths = ExistingPaths
       /\ NothingWritten

\* the child configuration on a target holding two of its three files
C2_Witness ==
    /\ IsApply /\ call.mode = "create" /\ call.noInteractive
    /\ result.outcome = "thrown"
    /\ result.thrownPaths = <<PA, PJ>>
    /\ Len(ResolvedFilesOfCall) = 3

\* the content a resolved path carries in the last applyConfiguration
NewContentOf(path) ==
    LET fl == ResolvedFilesOfCall
    IN  fl[CHOOSE i \in DOMAIN fl : fl[i].path = path].content

Readable(path) == AbsIn(path) \notin env.noRead

ConflictsFor(path) ==
    { i \in DOMAIN result.result.conflicts : result.result.conflicts[i].path = path }

\* C3: create mode without noInteractive and with at least one conflicting path
\* returns normally, writes nothing, merges nothing, and reports exactly one
\* ConflictInfo per conflicting path whose content can be read, carrying the
\* on-disk content as existingContent and the resolved content as newContent.
C3_CreateInteractiveReportsConflicts ==
    (IsApply /\ call.mode = "create" /\ ~call.noInteractive
       /\ ResolutionSucceeded /\ ExistingPaths # <<>>)
    => /\ result.outcome = "returned"
       /\ NothingWritten
       /\ result.result.filesModified = <<>>
       /\ \A i \in DOMAIN result.result.conflicts :
            /\ Contains(ExistingPaths, result.result.conflicts[i].path)
            /\ result.result.conflicts[i].mergedContent = NoContent
       /\ \A j \in DOMAIN ExistingPaths :
            Readable(ExistingPaths[j]) =>
              /\ Cardinality(ConflictsFor(ExistingPaths[j])) = 1
              /\ \A i \in ConflictsFor(ExistingPaths[j]) :
                   /\ result.result.conflicts[i].existingContent
                        = fsBefore[AbsIn(ExistingPaths[j])]
                   /\ result.result.conflicts[i].newContent = NewContentOf(ExistingPaths[j])

\* which paths a result puts in which class
Classification(r) ==
    [created |-> Range(r.filesCreated),
     modified |-> Range(r.filesModified),
     conflicts |-> { r.conflicts[i].path : i \in DOMAIN r.conflicts }]

\* C4: a live applyConfiguration that follows a dry run with the same
\* configuration, mode and target classifies every path as the dry run did.
C4_DryRunPredictsLive ==
    [][ (/\ IsApply /\ call.dryRun /\ result.outcome = "returned"
         /\ ResolutionSucceeded
         /\ fs = fsBefore
         /\ call' = [call EXCEPT !.dryRun = FALSE])
        => (/\ result'.outcome = "returned"
            /\ Classification(result'.result) = Classification(result.result)) ]_vars

\* C5: a dry run returns success = TRUE whenever inheritance resolution
\* succeeded, in every mode and on every target.
C5_DryRunSucceeds ==
    (IsApply /\ call.dryRun /\ ResolutionSucceeded)
    => (result.outcome = "returned" /\ result.result.success)

\* C6: a dry run writes nothing: no file is created or changed and no
\* directory, the target directory included, is created.
C6_DryRunWritesNothing ==
    (IsApply /\ call.dryRun)
    => /\ fs = fsBefore
       /\ dirs = dirsBefore
       /\ \A i \in DOMAIN log : log[i].op \notin {"write", "mkdir"}

\* C7: every ApplyResult either entry point returns has
\* success = TRUE exactly when its errors and its conflicts are both empty.
C7_SuccessIffClean ==
    result.outcome = "returned"
    => (result.result.success
          <=> (result.result.errors = <<>> /\ result.result.conflicts = <<>>))

\* a live merge that wrote without error and still reports a conflict
C7_Witness ==
    /\ IsApply /\ ~call.dryRun /\ call.mode = "merge"
    /\ result.outcome = "returned"
    /\ ~result.result.success
    /\ result.result.errors = <<>>
    /\ result.result.conflicts # <<>>
    /\ \E i \in DOMAIN log : log[i].op = "write"

\* a directory above the path is missing and may not be created
DirectoryRefused(path) ==
    LET segs == Segments(AbsIn(path))
    IN  \E k \in 1..(Len(segs) - 1) :
          AbsOf(SubSeq(segs, 1, k)) \in env.noWrite \ dirs

\* the write of this path is refused: it escapes the target, or is not permitted
WriteFails(path) ==
    \/ ~UnderTarget(AbsIn(path))
    \/ AbsIn(path) \in env.noWrite
    \/ DirectoryRefused(path)

\* the last call reached its batch write
BatchRan ==
    /\ result.outcome = "returned"
    /\ \/ IsSecondPhase
       \/ /\ IsApply /\ ~call.dryRun /\ ResolutionSucceeded
          /\ ~(call.mode = "create" /\ ExistingPaths # <<>>)
          /\ \A i \in DOMAIN result.result.errors : result.result.errors[i].src # "apply"

\* the paths the last call queued for writing
QueuedPaths ==
    IF IsSecondPhase
    THEN { call.resolved[i].path : i \in { j \in DOMAIN call.resolved :
             call.resolved[j].resolution \in {"replace", "merge"} } }
    ELSE Range(result.result.filesCreated) \cup Range(result.result.filesModified)

\* C8: in the batch write of a live apply or of the second-phase entry point, a
\* file whose write fails is recorded in errors and makes success FALSE, while
\* every other queued file, before and after it, is written and stays written.
C8_BatchWriteIsolatesFailures ==
    BatchRan
    => /\ \A p \in QueuedPaths :
            IF WriteFails(p)
            THEN ErrorFor(p) /\ ~result.result.success /\ ~LogHas("write", AbsIn(p))
            ELSE LogHas("write", AbsIn(p)) /\ ~ErrorFor(p)
       /\ Len(result.result.errors) = Cardinality({ p \in QueuedPaths : WriteFails(p) })
       /\ \A i \in DOMAIN log :
            log[i].op = "write"
            => log[i].path \in DOMAIN fs /\ fs[log[i].path] = log[i].content

\* the middle file of three is refused, the first and the last are written
C8_Witness ==
    /\ BatchRan /\ IsApply
    /\ QueuedPaths = {PA, PJ, PM}
    /\ ErrorFor(PJ)
    /\ \E i, j \in DOMAIN log :
         /\ i < j
         /\ log[i] = Io("write", AbsIn(PA), fs[AbsIn(PA)])
         /\ log[j] = Io("write", AbsIn(PM), fs[AbsIn(PM)])

\* merge mode could not read what the path held
ReadFails(path) == call.mode = "merge" /\ ExistedBefore(path) /\ ~Readable(path)

\* merge mode reads the path and mergeContent reports a conflict
MergeConflicts(path) ==
    /\ call.mode = "merge" /\ ExistedBefore(path) /\ Readable(path)
    /\ mergeContent(fsBefore[AbsIn(path)], NewContentOf(path), path).hasConflicts

\* a live applyConfiguration past resolution, the target directory in place,
\* and not the create-mode conflict report
LiveApplyRan ==
    /\ IsApply /\ ~call.dryRun /\ ResolutionSucceeded
    /\ TargetPath \in dirs
    /\ ~(call.mode = "create" /\ ExistingPaths # <<>>)

\* C9: in a live applyConfiguration past resolution nothing is thrown, every
\* error names a file whose own read or write failed, every such file has an
\* error, and every other resolved file that is not a merge conflict is written.
C9_PerFileErrorsAreIsolated ==
    LiveApplyRan
    => /\ result.outcome = "returned"
       /\ \A i \in DOMAIN result.result.errors :
            LET p == result.result.errors[i].path
            IN  ReadFails(p) \/ (WriteFails(p) /\ ~MergeConflicts(p))
       /\ \A i \in DOMAIN ResolvedFilesOfCall :
            LET p == ResolvedFilesOfCall[i].path IN
            IF ReadFails(p) THEN ErrorFor(p)
            ELSE IF MergeConflicts(p) THEN ~ErrorFor(p) /\ ~LogHas("write", AbsIn(p))
            ELSE IF WriteFails(p) THEN ErrorFor(p)
            ELSE LogHas("write", AbsIn(p))

\* C10: in a live merge, every resolved path that exists and can be read is
\* merged with mergeContent; on hasConflicts it is reported in conflicts and its
\* file is left as it was; otherwise the merged content is written (unless the
\* write itself is refused) and the path is in filesModified, not in conflicts.
C10_LiveMergeWritesOrReports ==
    (LiveApplyRan /\ call.mode = "merge" /\ result.outcome = "returned")
    => \A j \in DOMAIN ExistingPaths :
         LET p == ExistingPaths[j]
             m == mergeContent(fsBefore[AbsIn(p)], NewContentOf(p), p)
         IN  Readable(p) =>
               IF m.hasConflicts
               THEN /\ ConflictsFor(p) # {}
                    /\ fs[AbsIn(p)] = fsBefore[AbsIn(p)]
                    /\ ~LogHas("write", AbsIn(p))
               ELSE /\ Contains(result.result.filesModified, p)
                    /\ ConflictsFor(p) = {}
                    /\ ~WriteFails(p)
                         => LogHas("write", AbsIn(p)) /\ fs[AbsIn(p)] = m.content

\* C11: a live apply in replace mode, or in any mode when no resolved path is
\* already a file of the target, in which no write is refused, leaves every
\* resolved file in the target with exactly its resolved content, lists in
\* filesCreated exactly the resolved paths that did not exist and in
\* filesModified exactly those that did, reports no conflict and succeeds.
C11_LiveApplyWritesEveryFile ==
    (/\ IsApply /\ ~call.dryRun /\ ResolutionSucceeded
     /\ call.mode = "replace" \/ ExistingPaths = <<>>
     /\ \A i \in DOMAIN ResolvedFilesOfCall : ~WriteFails(ResolvedFilesOfCall[i].path))
    => /\ result.outcome = "returned"
       /\ \A i \in DOMAIN ResolvedFilesOfCall :
            LET f == ResolvedFilesOfCall[i]
            IN  AbsIn(f.path) \in DOMAIN fs /\ fs[AbsIn(f.path)] = f.content
       /\ result.result.filesCreated
            = SelectSeq(Paths(ResolvedFilesOfCall), LAMBDA p : ~ExistedBefore(p))
       /\ result.result.filesModified = ExistingPaths
       /\ result.result.conflicts = <<>>
       /\ result.result.success

\* replace mode on a target holding two of the three resolved files
C11_Witness ==
    /\ IsApply /\ ~call.dryRun /\ call.mode = "replace" /\ call.config = "child"
    /\ result.result.success
    /\ result.result.filesCreated = <<PM>>
    /\ result.result.filesModified = <<PA, PJ>>
    /\ fs[AbsIn(PA)] = <<"y">>
    /\ fs[AbsIn(PM)] = MdDoc

\* the path holds after the call what it held before it, or is as absent
UnchangedOnDisk(path) ==
    /\ AbsIn(path) \in DOMAIN fs <=> AbsIn(path) \in DOMAIN fsBefore
    /\ AbsIn(path) \in DOMAIN fs => fs[AbsIn(path)] = fsBefore[AbsIn(path)]
    /\ ~LogHas("write", AbsIn(path))

\* a keep or skip entry: recorded as skipped, nothing written
EntrySkipped(r) ==
    /\ Contains(result.result.filesSkipped, r.path)
    /\ ~Contains(result.result.filesModified, r.path)
    /\ UnchangedOnDisk(r.path)

\* a replace or merge entry whose supplied content is on disk below the target
EntryWritten(r) ==
    /\ UnderTarget(AbsIn(r.path))
    /\ LogHas("write", AbsIn(r.path))
    /\ AbsIn(r.path) \in DOMAIN fs /\ fs[AbsIn(r.path)] = r.content

EntryModified(r) ==
    /\ Contains(result.result.filesModified, r.path)
    /\ ~Contains(result.result.filesSkipped, r.path)

\* nothing is looked up: no existence check and no read
NoDetection == \A i \in DOMAIN log : log[i].op \notin {"stat", "read"}

\* C12 as stated: applyWithResolvedConflicts records every keep or skip entry in
\* filesSkipped and leaves its file alone, writes the supplied content of every
\* replace or merge entry and records it in filesModified, each entry in exactly
\* one list, with no existence check or read.
C12_SecondPhaseAsStated ==
    IsSecondPhase
    => /\ result.outcome = "returned"
       /\ NoDetection
       /\ \A i \in DOMAIN call.resolved :
            LET r == call.resolved[i]
            IN  IF r.resolution \in {"keep", "skip"} THEN EntrySkipped(r)
                ELSE EntryModified(r) /\ EntryWritten(r)

\* C12 amended: as stated, except that a replace or merge entry whose write is
\* refused (escaping path, permission denied) is recorded in filesModified and
\* in errors and its file is left alone.
C12_SecondPhaseWritesUnlessRefused ==
    IsSecondPhase
    => /\ result.outcome = "returned"
       /\ NoDetection
       /\ \A i \in DOMAIN call.resolved :
            LET r == call.resolved[i]
            IN  IF r.resolution \in {"keep", "skip"} THEN EntrySkipped(r)
                ELSE /\ EntryModified(r)
                     /\ IF WriteFails(r.path)
                        THEN ErrorFor(r.path) /\ UnchangedOnDisk(r.path)
                        ELSE EntryWritten(r) /\ ~ErrorFor(r.path)

\* one kept entry and one merged entry, the second written
C12_Witness ==
    /\ IsSecondPhase
    /\ call.resolved = << Resolved(PA, "keep", <<"r">>), Resolved(PJ, "merge", <<"not json">>) >>
    /\ result.result.filesSkipped = <<PA>>
    /\ result.result.filesModified = <<PJ>>
    /\ LogHas("write", AbsIn(PJ))

IsPreview == call.op = "preview"

\* the resolved paths of the configuration handed to previewApply
PreviewedPaths ==
    IF IsPreview /\ ResolutionOfCall.ok THEN Paths(ResolutionOfCall.resolvedFiles) ELSE <<>>

\* in how many of the three lists of the preview the path appears
PreviewListings(path) ==
    Cardinality({ i \in DOMAIN result.preview.filesToCreate :
                    result.preview.filesToCreate[i] = path })
      + Cardinality({ i \in DOMAIN result.preview.filesToModify :
                        result.preview.filesToModify[i] = path })
      + Cardinality({ i \in DOMAIN result.preview.conflicts :
                        result.preview.conflicts[i] = path })

\* C13: previewApply, on a target directory that is in place and whose files
\* can all be read, lists every resolved path with no existing file in
\* filesToCreate, every resolved path with an existing file in conflicts or
\* filesToModify, and every resolved path in exactly one of the three lists.
C13_PreviewClassifiesEveryPath ==
    (IsPreview /\ ResolutionOfCall.ok /\ TargetPath \in dirs /\ env.noRead = {})
    => \A i \in DOMAIN PreviewedPaths :
         LET p == PreviewedPaths[i]
         IN  /\ PreviewListings(p) = 1
             /\ IF ExistedBefore(p)
                THEN Contains(result.preview.conflicts, p)
                       \/ Contains(result.preview.filesToModify, p)
                ELSE Contains(result.preview.filesToCreate, p)

\* C14: when inheritance resolution fails, applyConfiguration returns
\* success = FALSE with the resolution error as its only error, every file list
\* and the conflicts empty, and has done no I/O: no directory created, no
\* existence check, no read, no write.
C14_ResolutionFailureAborts ==
    (IsApply /\ ~ResolutionOfCall.ok)
    => /\ result.outcome = "returned"
       /\ result.result
            = [EmptyResult EXCEPT !.errors = <<Err("resolve", <<>>, ResolutionOfCall.kind)>>]
       /\ ResolutionOfCall.kind \in {"InheritanceCycle", "ParentNotFound"}
       /\ log = <<>>
       /\ fs = fsBefore
       /\ dirs = dirsBefore

\* a cyclic configuration applied live to a target directory that does not exist
C14_Witness ==
    /\ IsApply /\ call.config = "cycA" /\ ~call.dryRun
    /\ TargetPath \notin dirs
    /\ env = NoDenial
    /\ Len(result.result.errors) = 1
    /\ result.result.errors[1].kind = "InheritanceCycle"

\* the resolved paths of the last applyConfiguration that leave the target
EscapingPaths ==
    { p \in Range(Paths(ResolvedFilesOfCall)) : ~UnderTarget(AbsIn(p)) }

LiveApplyWithEscapingPath ==
    IsApply /\ ~call.dryRun /\ ResolutionSucceeded /\ EscapingPaths # {}

\* the errors of the result that name the path and carry the OUTSIDE_BASE message
OutsideBaseErrors(path) ==
    { i \in DOMAIN result.result.errors :
        result.result.errors[i].path = path /\ result.result.errors[i].kind = "OUTSIDE_BASE" }

NothingWrittenFor(path) ==
    /\ ~LogHas("write", AbsIn(path))
    /\ AbsIn(path) \in DOMAIN fs <=> AbsIn(path) \in DOMAIN fsBefore
    /\ AbsIn(path) \in DOMAIN fs => fs[AbsIn(path)] = fsBefore[AbsIn(path)]

\* C15 as stated: a live applyConfiguration whose resolved files include an
\* escaping path returns success = FALSE with exactly one OUTSIDE_BASE error per
\* escaping path and writes nothing for those paths.
C15_EscapingPathsAsStated ==
    LiveApplyWithEscapingPath
    => /\ result.outcome = "returned"
       /\ ~result.result.success
       /\ \A p \in EscapingPaths :
            Cardinality(OutsideBaseErrors(p)) = 1 /\ NothingWrittenFor(p)

\* C15 amended: such a call never succeeds and writes nothing for the escaping
\* paths; when it reaches its batch write it reports exactly one OUTSIDE_BASE
\* error per escaping path, and when it ends before (a create-mode conflict,
\* returned or thrown, or a failure caught before the batch) it reports none.
C15_EscapingPathsRefusedAtWrite ==
    LiveApplyWithEscapingPath
    => /\ result.outcome = "returned" => ~result.result.success
       /\ result.outcome = "thrown" => (call.mode = "create" /\ call.noInteractive)
       /\ \A p \in EscapingPaths :
            /\ NothingWrittenFor(p)
            /\ Cardinality(OutsideBaseErrors(p)) = IF BatchRan THEN 1 ELSE 0

\* the escaping file is refused at the batch write, its siblings are written
C15_Witness ==
    /\ LiveApplyWithEscapingPath /\ BatchRan
    /\ EscapingPaths = {PEvil}
    /\ result.result.errors = <<Err("write", PEvil, "OUTSIDE_BASE")>>
    /\ LogHas("write", AbsIn(PA))

\* the id reached from the starting configuration after k extends steps; an id
\* the table lacks, and the absence of a parent, lead nowhere
RECURSIVE IdAt(_, _, _)
IdAt(t, start, k) ==
    IF k = 0 THEN start
    ELSE LET prev == IdAt(t, start, k - 1)
         IN  IF prev \in ChainIds THEN t[prev] ELSE prev

\* the steps at which the walk is on an id it has been on before
RevisitSteps(t, start) ==
    { k \in 1..Cardinality(ChainIds) :
        IdAt(t, start, k) \in ChainIds
          /\ \E j \in 0..(k - 1) : IdAt(t, start, j) = IdAt(t, start, k) }

FirstRevisit(t, start) ==
    CHOOSE k \in RevisitSteps(t, start) : \A j \in RevisitSteps(t, start) : k <= j

Occurrences(seq, x) == Cardinality({ i \in DOMAIN seq : seq[i] = x })

IsResolve == call.op = "resolveInheritance"

\* C16: whenever following extends from the starting configuration comes back
\* to an id already visited, resolveInheritance fails with InheritanceCycle, its
\* chain is the visited ids in discovery order followed by the repeated id,
\* which so appears exactly twice, and no resolvedFiles are produced.
C16_CycleChainEndsWithRepeat ==
    (IsResolve /\ RevisitSteps(call.table, call.start) # {})
    => LET k == FirstRevisit(call.table, call.start)
       IN  /\ ~result.ok
           /\ result.kind = "InheritanceCycle"
           /\ result.chain = [i \in 1..(k + 1) |-> IdAt(call.table, call.start, i - 1)]
           /\ Occurrences(result.chain, result.chain[k + 1]) = 2
           /\ \A i \in 1..k : Occurrences(result.chain, result.chain[i]) <= 2
           /\ result.resolvedFiles = <<>>

\* A extends B, B extends C, C extends B: the cycle does not contain A
C16_Witness ==
    /\ IsResolve /\ call.start = "A"
    /\ call.table = [id \in ChainIds |-> IF id = "A" THEN "B" ELSE IF id = "B" THEN "C" ELSE "B"]
    /\ result.kind = "InheritanceCycle"
    /\ result.chain = <<"A", "B", "C", "B">>

IsFold == call.op = "mergeConfigurationChain"

\* the entries of the chain for one path, root to child
EntriesFor(path) == SelectSeq(call.entries, LAMBDA f : f.path = path)

\* the last entry that excludes or overrides, 0 when there is none
LastReset(E) ==
    LET R == { i \in DOMAIN E : E[i].exclude \/ E[i].override }
    IN  IF R = {} THEN 0 ELSE CHOOSE i \in R : \A j \in R : j <= i

\* the entries that can still matter: from the last override on, or after the
\* last exclude
LiveSuffix(E) ==
    LET k == LastReset(E)
        from == IF k = 0 THEN 1 ELSE IF E[k].exclude THEN k + 1 ELSE k
    IN  SubSeq(E, from, Len(E))

ResolvedAt(path) ==
    { i \in DOMAIN result.resolvedFiles : result.resolvedFiles[i].path = path }

\* C17: a path whose last entry excludes is absent from the resolved files; any
\* other path with an entry is resolved once, to what its entries from the
\* last override on (or after the last exclude) alone fold to, and verbatim to
\* that entry when it is the only one left.
C17_ExcludeAndOverrideCutHistory ==
    IsFold
    => \A path \in {PM, PY} :
         LET E == EntriesFor(path)
         IN  IF E = <<>> \/ E[Len(E)].exclude
             THEN ResolvedAt(path) = {}
             ELSE /\ Cardinality(ResolvedAt(path)) = 1
                  /\ \A i \in ResolvedAt(path) :
                       /\ << result.resolvedFiles[i] >>
                            = mergeConfigurationChain(
                                << Config("suffix", NoExtends, LiveSuffix(E)) >>)
                       /\ Len(LiveSuffix(E)) = 1
                            => result.resolvedFiles[i] = LiveSuffix(E)[1]

\* a merged pair, then an override in a child configuration: only the override is left
C17_Witness ==
    /\ IsFold
    /\ Len(call.configs) = 2
    /\ EntriesFor(PM) = << File(PM, <<"# A", "1">>, "markdown"),
                           File(PM, <<"# B", "2">>, "markdown"),
                           Flagged(File(PM, <<"# A", "1">>, "markdown"), TRUE, FALSE) >>
    /\ result.resolvedFiles = << Flagged(File(PM, <<"# A", "1">>, "markdown"), TRUE, FALSE) >>

IsMergeFiles == call.op = "mergeFiles"

\* the type the merge runs under: the entry's, else the existing entry's
MergeType == IF call.child.type # "" THEN call.child.type ELSE call.parent.type

\* what ContentMerger produces for the two contents under a type
ContentMergerUnder(type, existing, new) ==
    CASE type = "markdown" -> mergeMarkdown(existing, new)
      [] type = "json" -> mergeJson(existing, new)
      [] type = "yaml" -> mergeYaml(existing, new)
      [] OTHER -> mergeText(existing, new)

\* C18 as stated: the entry resolved from an existing entry and a plain entry
\* for the same path carries the content ContentMerger produces for the two
\* contents under the entry's type, else the existing entry's type.
C18_MergedByContentMerger ==
    IsMergeFiles
    => /\ Len(result.resolvedFiles) = 1
       /\ result.resolvedFiles[1].content
            = ContentMergerUnder(MergeType, call.parent.content, call.child.content).content

\* C18 amended: the content is, for markdown, the one ContentMerger produces;
\* for json, the one ContentMerger produces when both sides parse and the new
\* entry's content otherwise; for yaml, the new entry's content unless it is
\* empty, and then the existing one; for text, the new entry's content.
C18_MergedByResolverRules ==
    IsMergeFiles
    => /\ Len(result.resolvedFiles) = 1
       /\ result.resolvedFiles[1].path = call.child.path
       /\ result.resolvedFiles[1].type = MergeType
       /\ result.resolvedFiles[1].content
            = CASE MergeType = "markdown"
                     -> mergeMarkdown(call.parent.content, call.child.content).content
                [] MergeType = "json"
                     -> IF JsonParse(call.parent.content).ok /\ JsonParse(call.child.content).ok
                        THEN mergeJson(call.parent.content, call.child.content).content
                        ELSE call.child.content
                [] MergeType = "yaml"
                     -> IF call.child.content # EmptyContent THEN call.child.content
                        ELSE call.parent.content
                [] OTHER -> call.child.content

\* a json entry without a type merged into a json entry: the existing type decides
C18_Witness ==
    /\ IsMergeFiles
    /\ call.parent = File(PA, JsonText("json:compact", JsonA), "json")
    /\ call.child = File(PA, JsonText("json:compact", JsonB), "")
    /\ result.resolvedFiles
         = << File(PA, JsonText("json:pretty", deepMerge(JsonA, JsonB)), "json") >>

IsMergeOf(type) == call.op = "mergeContent" /\ getFileType(call.filePath) = type

\* the heading lines of a content, "" standing for the lines before the first
HeadingsOf(content) ==
    { content[i] : i \in { j \in 1..Len(content) : IsHeading(content[j]) } }
      \cup (IF content # <<>> /\ ~IsHeading(content[1]) THEN {""} ELSE {})

\* the body a content gives a heading: the lines after its last occurrence, up
\* to the next heading
BodyOf(content, h) ==
    LET from == IF h = "" THEN 0
                ELSE CHOOSE i \in 1..Len(content) :
                       /\ content[i] = h
                       /\ \A j \in (i + 1)..Len(content) : content[j] # h
        stops == { j \in (from + 1)..Len(content) : IsHeading(content[j]) }
        to == IF stops = {} THEN Len(content)
              ELSE (CHOOSE j \in stops : \A k \in stops : j <= k) - 1
    IN  IF to <= from THEN EmptyContent ELSE SubSeq(content, from + 1, to)

\* headings both contents have, with different bodies
ClashingHeadings ==
    { h \in HeadingsOf(call.existingContent) \cap HeadingsOf(call.newContent) :
        BodyOf(call.existingContent, h) # BodyOf(call.newContent, h) }

KeysOf(o) == { o.v[i][1] : i \in 1..Len(o.v) }
ValueAt(o, k) == o.v[CHOOSE i \in 1..Len(o.v) : o.v[i][1] = k][2]
ElementsOf(a) == { a.v[i] : i \in 1..Len(a.v) }
FirstAt(xs, x) == CHOOSE i \in 1..Len(xs) : xs[i] = x /\ \A j \in 1..(i - 1) : xs[j] # x

\* m holds every value of e and of n once, in the order of their first
\* occurrence in e followed by n
IsUnion(m, e, n) ==
    /\ ElementsOf(m) = ElementsOf(e) \cup ElementsOf(n)
    /\ \A i, j \in 1..Len(m.v) :
         i < j => FirstAt(e.v \o n.v, m.v[i]) < FirstAt(e.v \o n.v, m.v[j])

\* m is the deep merge of n into e
RECURSIVE IsDeepMerge(_, _, _)
IsDeepMerge(m, e, n) ==
    /\ m.t = "obj"
    /\ KeysOf(m) = KeysOf(e) \cup KeysOf(n)
    /\ Len(m.v) = Cardinality(KeysOf(m))
    /\ \A k \in KeysOf(e) \ KeysOf(n) : ValueAt(m, k) = ValueAt(e, k)
    /\ \A k \in KeysOf(n) \ KeysOf(e) : ValueAt(m, k) = ValueAt(n, k)
    /\ \A k \in KeysOf(e) \cap KeysOf(n) :
         IF ValueAt(e, k).t = "obj" /\ ValueAt(n, k).t = "obj"
         THEN IsDeepMerge(ValueAt(m, k), ValueAt(e, k), ValueAt(n, k))
         ELSE IF ValueAt(e, k).t = "arr" /\ ValueAt(n, k).t = "arr"
         THEN ValueAt(m, k).t = "arr" /\ IsUnion(ValueAt(m, k), ValueAt(e, k), ValueAt(n, k))
         ELSE ValueAt(m, k) = ValueAt(n, k)

BothParse ==
    /\ IsJsonText(call.existingContent)
    /\ IsJsonText(call.newContent)

ParsedValue(c) == CHOOSE v \in JsonUniverse : ToString(v) = c[2]

TextRule(existing, new) ==
    IF existing = new
    THEN [success |-> TRUE, content |-> existing, hasConflicts |-> FALSE,
          conflictMarkers |-> 0]
    ELSE [success |-> FALSE,
          content |-> <<"<<<<<<< EXISTING">> \o existing \o <<"=======">> \o new
                        \o <<">>>>>>> NEW">>,
          hasConflicts |-> TRUE, conflictMarkers |-> 1]

\* C21: when either content fails to parse, the json merge gives the result of
\* the text rule for the two contents: identical contents come back unchanged
\* with success = true and hasConflicts = false, different ones are wrapped in
\* conflict markers.
C21_UnparseableJsonFollowsTextRule ==
    IsMergeOf("json") /\ ~BothParse
    => result = TextRule(call.existingContent, call.newContent)

\* C22: the yaml merge returns the incoming content when it is not empty and
\* the existing content when it is, with success = true and hasConflicts =
\* false either way.
C22_YamlKeepsExistingOnEmptyIncoming ==
    IsMergeOf("yaml")
    => /\ result.success
       /\ ~result.hasConflicts
       /\ result.content = IF call.newContent # EmptyContent THEN call.newContent
                           ELSE call.existingContent

IsDetection == call.op = "getConflictingFiles"

\* the candidate names a regular file strictly inside the target
NamesFileInTarget(p) == UnderTarget(AbsIn(p)) /\ AbsIn(p) \in DOMAIN fs

\* C23: getConflictingFiles returns exactly the candidates that resolve inside
\* the target and name a regular file there, in input order; a candidate that
\* escapes the target is no conflict even when it points at a real file, is
\* never stat-ed, and the candidates after it are still checked.
C23_DetectorReportsFilesInsideTarget ==
    IsDetection
    => /\ result.conflicts = SelectSeq(call.newFiles, NamesFileInTarget)
       /\ \A i \in DOMAIN log : log[i].op = "stat" /\ ~(log[i].path \in DOMAIN OutsideFiles)
       /\ \A i \in DOMAIN call.newFiles :
            LET a == AbsIn(call.newFiles[i])
            IN  (UnderTarget(a) \/ a = TargetPath) => LogHas("stat", a)

\* ../e.txt points at a real file outside the target and comes first; a.txt
\* after it is reported
C23_Witness ==
    /\ IsDetection
    /\ call.newFiles = <<PEvil, PA, PM>>
    /\ AbsIn(PEvil) \in DOMAIN fs
    /\ AbsIn(PM) \notin DOMAIN fs
    /\ result.conflicts = <<PA>>

IsGuardCall == call.op = "resolveSafePath"

\* the segments of the base, and of the path taken from the base
BaseSegments == Segments(call.baseDir)
JoinedSegments == Segments(call.baseDir \o <<"/">> \o call.relativePath)

\* the path starts at a root, a drive or a server rather than at the base
IsRootedForm(p) ==
    \/ p[1] = "/"
    \/ Len(p) >= 2 /\ p[1] = "\\" /\ p[2] = "\\"
    \/ Len(p) >= 3 /\ p[2] = ":" /\ p[3] \in {"/", "\\"}

\* the normalized path is the base or lies below it
StaysInBase ==
    /\ Len(JoinedSegments) >= Len(BaseSegments)
    /\ SubSeq(JoinedSegments, 1, Len(BaseSegments)) = BaseSegments

\* C24: for every base directory, a filesystem root included, resolveSafePath
\* classifies the path: EMPTY for the empty path; else NOT_RELATIVE for an
\* absolute, drive-letter or UNC form; else OUTSIDE_BASE when the normalized
\* path escapes the base; otherwise it returns the normalized absolute path,
\* which is the base or lies below it.
C24_PathGuardClassifiesEveryPath ==
    IsGuardCall
    => IF call.relativePath = <<>> THEN result = [ok |-> FALSE, kind |-> "EMPTY", path |-> <<>>]
       ELSE IF IsRootedForm(call.relativePath)
            THEN result = [ok |-> FALSE, kind |-> "NOT_RELATIVE", path |-> <<>>]
       ELSE IF ~StaysInBase
            THEN result = [ok |-> FALSE, kind |-> "OUTSIDE_BASE", path |-> <<>>]
       ELSE /\ result.ok
            /\ isAbsolute(result.path)
            /\ Segments(result.path) = JoinedSegments

IsValidate == call.op = "validate"

\* C25: the validate command reports the inheritance chain as valid for every
\* configuration whose extends chain is acyclic, in particular one that extends
\* a parent which extends nothing, and reports a circular inheritance only
\* when following each configuration's own parent id revisits an id.
C25_ValidateReportsRealCycles ==
    IsValidate => (result.valid <=> RevisitSteps(call.table, call.start) = {})

\* the lines of a content that are headings
HeadingStarts(content) == { i \in 1..Len(content) : IsHeading(content[i]) }

NthStart(content, k) ==
    CHOOSE i \in HeadingStarts(content) :
      Cardinality({ j \in HeadingStarts(content) : j < i }) = k - 1

\* the lines after line from, up to the next heading
BodyFrom(content, from) ==
    LET stops == { j \in HeadingStarts(content) : j > from }
        to == IF stops = {} THEN Len(content)
              ELSE (CHOOSE j \in stops : \A k \in stops : j <= k) - 1
    IN  IF to <= from THEN EmptyContent ELSE SubSeq(content, from + 1, to)

\* the sections of a content, in order: the lines before the first heading (if
\* any) under the heading "", then one section per heading line
Blocks(content) ==
    (IF content # <<>> /\ ~IsHeading(content[1])
     THEN << [h |-> "", b |-> BodyFrom(content, 0)] >> ELSE <<>>)
    \o [k \in 1..Cardinality(HeadingStarts(content)) |->
          [h |-> content[NthStart(content, k)], b |-> BodyFrom(content, NthStart(content, k))]]

\* the existing sections, each with the incoming body when the incoming content
\* has its heading, then the incoming sections the existing content lacks
OverlaidBlocks(existing, new) ==
    [k \in DOMAIN Blocks(existing) |->
       IF Blocks(existing)[k].h \in HeadingsOf(new)
       THEN [h |-> Blocks(existing)[k].h, b |-> BodyOf(new, Blocks(existing)[k].h)]
       ELSE Blocks(existing)[k]]
    \o SelectSeq(Blocks(new), LAMBDA x : x.h \notin HeadingsOf(existing))

RECURSIVE BlockLines(_)
BlockLines(blocks) ==
    IF blocks = <<>> THEN <<>>
    ELSE (IF Head(blocks).h # "" THEN <<Head(blocks).h>> ELSE <<>>)
         \o Head(blocks).b \o BlockLines(Tail(blocks))

\* C26: the markdown merge returns the existing sections in their order, each
\* with the incoming body when its heading line is in the incoming content,
\* followed by the incoming sections whose heading is not in the existing
\* content, in incoming order; no existing section whose heading the incoming
\* content lacks is dropped or changed.
C26_MarkdownKeepsEverySection ==
    IsMergeOf("markdown")
    => result.content = Trim(BlockLines(OverlaidBlocks(call.existingContent, call.newContent)))

\* C27: in every MergeResult of mergeContent, whatever the type and the
\* contents (contents that hold "<<<<<<<" lines included), conflictMarkers is
\* the number of "<<<<<<<" block starts in the returned content.
C27_ConflictMarkersAreCounted ==
    call.op = "mergeContent" => result.conflictMarkers = countConflictMarkers(result.content)

\* the last call is a live apply or a second-phase write that returned
LiveCallReturned ==
    /\ result.outcome = "returned"
    /\ IsSecondPhase \/ (IsApply /\ ~call.dryRun)

RecordedPaths == Range(result.result.filesCreated) \cup Range(result.result.filesModified)

\* the content the last call meant to give the path
IntendedContent(path) ==
    IF IsSecondPhase
    THEN call.resolved[CHOOSE i \in DOMAIN call.resolved : call.resolved[i].path = path].content
    ELSE IF call.mode = "merge" /\ ExistedBefore(path)
    THEN mergeContent(fsBefore[AbsIn(path)], NewContentOf(path), path).content
    ELSE NewContentOf(path)

\* C28: in the result of a live applyConfiguration or of
\* applyWithResolvedConflicts, every path in filesCreated or filesModified was
\* written to disk with the content the call meant for it, and no path whose
\* write failed or was never attempted is in either list.
C28_RecordedPathsAreWritten ==
    LiveCallReturned
    => \A p \in RecordedPaths :
         /\ LogHas("write", AbsIn(p))
         /\ AbsIn(p) \in DOMAIN fs
         /\ fs[AbsIn(p)] = IntendedContent(p)
         /\ ~ErrorFor(p)

\* the first phase: a live create-mode apply, interactive, that returned conflicts
FirstPhaseReturnedConflicts ==
    /\ IsApply /\ call.mode = "create" /\ ~call.dryRun /\ ~call.noInteractive
    /\ result.outcome = "returned"
    /\ result.result.conflicts # <<>>

ConflictPaths == { result.result.conflicts[i].path : i \in DOMAIN result.result.conflicts }

\* C29: when a create-mode applyConfiguration has returned conflicts and
\* applyWithResolvedConflicts, given a resolution for every one of them,
\* completes without errors, every resolved file of the configuration that lies
\* in the target is present there, the files that did not conflict with their
\* resolved content.
C29_TwoPhaseFlowAppliesEveryFile ==
    [][ (/\ FirstPhaseReturnedConflicts
         /\ call'.op = "resolved"
         /\ { call'.resolved[i].path : i \in DOMAIN call'.resolved } = ConflictPaths
         /\ result'.outcome = "returned"
         /\ result'.result.errors = <<>>)
        => \A i \in DOMAIN ResolvedFilesOfCall :
             UnderTarget(AbsIn(ResolvedFilesOfCall[i].path))
             => /\ AbsIn(ResolvedFilesOfCall[i].path) \in DOMAIN fs'
                /\ ResolvedFilesOfCall[i].path \notin ConflictPaths
                     => fs'[AbsIn(ResolvedFilesOfCall[i].path)] = ResolvedFilesOfCall[i].content
      ]_vars

\* C30: resolveInheritance ends, with a ResolvedConfiguration, InheritanceCycle
\* or ParentNotFound, after at most one lookup per configuration id plus one;
\* when it succeeds the inheritanceChain starts with the id of the given
\* configuration, follows extends from child to root, and holds no id twice.
C30_ResolveInheritanceTerminates ==
    IsResolve
    => /\ result.kind \in {"OK", "InheritanceCycle", "ParentNotFound"}
       /\ result.ok <=> result.kind = "OK"
       /\ result.lookups <= Cardinality(ChainIds) + 1
       /\ result.ok
            => /\ result.chain # <<>>
               /\ result.chain[1] = call.start
               /\ \A i \in 1..(Len(result.chain) - 1) :
                    result.chain[i + 1] = call.table[result.chain[i]]
               /\ call.table[result.chain[Len(result.chain)]] = NoExtends
               /\ \A i, j \in DOMAIN result.chain : i # j => result.chain[i] # result.chain[j]

\* A extends B, B extends C, C extends nothing: two lookups, chain A, B, C
C30_Witness ==
    /\ IsResolve /\ call.start = "A"
    /\ call.table = [id \in ChainIds |-> IF id = "A" THEN "B" ELSE IF id = "B" THEN "C" ELSE NoExtends]
    /\ result.ok
    /\ result.chain = <<"A", "B", "C">>
    /\ result.lookups = 2

====
